---- MODULE Spec2Model ----
(***************************************************************************)
(* Model of the embedding pipeline of earthdata-mcp: the FIFO queue        *)
(* consumer lambdas/embedding/handler.py, the PostgreSQL datastore         *)
(* util/datastores/postgres.py over the cached psycopg connection of       *)
(* util/database.py, and the CMR and KMS clients it calls.                 *)
(*                                                                         *)
(* A datastore method is a composition of Execute (cur.execute) and Commit *)
(* (conn.commit) over a "world" record w:                                  *)
(*   w.db      the committed tables                                        *)
(*   w.tx      the tables as the open transaction of the connection sees   *)
(*             them (equal to w.db when nothing is pending)                *)
(*   w.status  the transaction status of the connection                    *)
(*   w.n       statements issued so far while processing this message      *)
(*   w.fault   the statement of this message that fails, and how           *)
(*   w.exc     the exception propagating ("" when none)                    *)
(*   w.cache   the lru_cache of util/kms/client.py                         *)
(*   w.now     NOW() of the transaction (0 where time plays no part)       *)
(*   w.ret     what the last datastore method returned                     *)
(*   w.trace   the calls made so far while processing this message         *)
(***************************************************************************)
EXTENDS Integers, Sequences, FiniteSets, Bags, TLC

VARIABLES
    queue,                \* the FIFO queue: message bodies in enqueue order
    pc,                   \* "idle" between invocations, "loop" inside handler's for loop
    batch,                \* event["Records"] of the running invocation
    idx,                  \* number of records of the batch the loop has finished
    batch_item_failures,  \* handler's batch_item_failures (messageIds)
    raised,               \* history: per finished record, whether process_message raised
    lastExc,              \* history: the exception of the last finished record ("" if none)
    db,                   \* committed rows of the four tables
    tx,                   \* rows as seen by the open transaction of the connection
    status,               \* _connection: "none", "idle", "intrans", "inerror", "closed"
    cache,                \* _lookup_term_cached's cache: (term, scheme) -> result
    faults,               \* number of datastore faults that have happened so far
    attempted,            \* history: messageIds handed to process_message, in order
    lastIn,               \* history: what the services answered for the last finished record
    replayed,             \* history: the last record repeated the one before it, same answers
    steps,                \* history: the calls process_message made for the last finished record
    ingest,               \* the running invocation of the ingest handler
    bootstrap,            \* the running invocation of the bootstrap driver
    conc,                 \* concurrent invocations of the embedding handler and their database
    router,               \* a RoutingEmbeddingGenerator and the calls it has delegated
    client,               \* the KMS client of a process: its lru_cache and what it was asked
    store                 \* a datastore called directly: its clock and its last call

vars == <<queue, pc, batch, idx, batch_item_failures, raised, lastExc,
          db, tx, status, cache, faults, attempted, lastIn, replayed, steps,
          ingest, bootstrap, conc, router, client, store>>

\* the producers of the queue
producers == <<ingest, bootstrap>>

\* the history of the running invocation
hist == <<raised, lastExc, attempted, lastIn, replayed, steps>>

----------------------------------------------------------------------------
(* Bounds *)

MaxQueue == 2     \* messages waiting in the queue
MaxBatch == 2     \* records per invocation
MaxFaultAt == 3   \* a datastore fault hits one of the first MaxFaultAt statements
MaxFaults == 1    \* datastore faults in one behaviour

None == "None"

----------------------------------------------------------------------------
(* Messages (util/models.py ConceptMessage, as JSON bodies on the queue) *)

\* a key that is absent from the JSON object
Missing == "<missing>"
MissingRevision == -1

Body(action, ctype, cid, rev) ==
    [json |-> TRUE, action |-> action, concept_type |-> ctype,
     concept_id |-> cid, revision_id |-> rev]

\* the concepts of the catalog: a collection and a variable
Concepts == { <<"collection", "C1-P">>, <<"variable", "V1-P">> }
ConceptIds == { c[2] : c \in Concepts }

\* the revisions of the collection in the catalog; the variable has one
Revisions(concept_id) == IF concept_id = "C1-P" THEN 1..3 ELSE {1}

\* a delete carries the revision after the last one
ValidBodies ==
    UNION { { Body("concept-update", c[1], c[2], rev) : rev \in Revisions(c[2]) } : c \in Concepts }
    \cup { Body("concept-delete", c[1], c[2], 4) : c \in Concepts }

\* bodies that do not satisfy the ConceptMessage schema
InvalidBodies ==
    { [Body("concept-update", "collection", "C1-P", 1) EXCEPT !.json = FALSE],
      Body("concept-purge", "collection", "C1-P", 1),
      Body("concept-delete", "granule", "C1-P", 4),
      Body("concept-update", "collection", Missing, 1) }

Bodies == ValidBodies \cup InvalidBodies

\* ConceptMessage.model_validate
ConceptMessage(b) ==
    /\ b.json
    /\ b.action \in {"concept-update", "concept-delete"}
    /\ b.concept_type \in {"collection", "variable", "citation"}
    /\ b.concept_id # Missing
    /\ b.revision_id # MissingRevision

\* the FIFO message group of a body
MessageGroupId(b) == <<b.concept_type, b.concept_id>>

----------------------------------------------------------------------------
(* CMR metadata (UMM JSON); an absent key is "" or <<>>, both falsy *)

Keyword(l3, l2, l1, term) ==
    [VariableLevel3 |-> l3, VariableLevel2 |-> l2, VariableLevel1 |-> l1, Term |-> term]

MdEmpty ==
    [EntryTitle |-> "", Abstract |-> "", Purpose |-> "",
     Name |-> "", LongName |-> "", Definition |-> "",
     ScienceKeywords |-> <<>>, Platforms |-> <<>>]

\* the revisions of the collection (UMM-C) and the one of the variable (UMM-Var)
MdA ==
    [MdEmpty EXCEPT !.EntryTitle = "MODIS SST",
                    !.Platforms = << [ShortName |-> "TERRA",
                                      Instruments |-> << [ShortName |-> "MODIS"] >>] >>]

MdB ==
    [MdEmpty EXCEPT !.EntryTitle = "MODIS SST v2", !.Abstract = "Daily SST",
                    !.ScienceKeywords = << Keyword("", "", "", "sst"),
                                           Keyword("", "", "SST", "OCEANS"),
                                           Keyword("", "", "", "sst") >>]

MdV ==
    [MdEmpty EXCEPT !.Name = "sst", !.LongName = "Sea Surface Temp",
                    !.ScienceKeywords = << Keyword("", "", "SST", "OCEANS") >>]

\* the catalog: what /search/concepts/{id}/{rev}.umm_json returns; the third
\* revision of the collection has lost its text fields and its keywords
Catalog(concept_id, revision_id) ==
    IF concept_id = "C1-P"
    THEN (IF revision_id = 1 THEN MdA ELSE IF revision_id = 2 THEN MdB ELSE MdEmpty)
    ELSE IF concept_id = "V1-P" THEN MdV
    ELSE MdEmpty

\* what fetch_associations returns: a dict, as a set of <<key, ids>> pairs
\* ({} is the empty dict: no associations, or the request failed)
NoAssociations == {}

AssociationValues ==
    { NoAssociations,
      { <<"variables", <<"V1-P">>>> },
      { <<"services", <<"S1-P">>>> } }

\* dict.get(key, [])
DictGet(d, key) ==
    IF \E p \in d : p[1] = key THEN (CHOOSE p \in d : p[1] = key)[2] ELSE <<>>

----------------------------------------------------------------------------
(* Helpers on sequences and bags *)

Range(s) == { s[i] : i \in DOMAIN s }

BagAdd(b, r) == b (+) SetToBag({r})

BagSize(b) == BagCardinality(b)

----------------------------------------------------------------------------
(* Extraction (lambdas/embedding/handler.py) *)

Chunk(attribute, text) == [attribute |-> attribute, text_content |-> text]

KMSTermRef(term, scheme) == [term |-> term, scheme |-> scheme]

\* one chunk if the field is present and non-empty
FieldChunk(value, attribute) ==
    IF value # "" THEN << Chunk(attribute, value) >> ELSE <<>>

\* the most specific term of a science keyword
DeepestTerm(kw) ==
    IF kw.VariableLevel3 # "" THEN kw.VariableLevel3
    ELSE IF kw.VariableLevel2 # "" THEN kw.VariableLevel2
    ELSE IF kw.VariableLevel1 # "" THEN kw.VariableLevel1
    ELSE kw.Term

RECURSIVE ScienceKeywordTerms(_)
ScienceKeywordTerms(kws) ==
    IF kws = <<>> THEN <<>>
    ELSE LET term == DeepestTerm(Head(kws)) IN
         (IF term # "" THEN << KMSTermRef(term, "sciencekeywords") >> ELSE <<>>)
         \o ScienceKeywordTerms(Tail(kws))

RECURSIVE InstrumentTerms(_)
InstrumentTerms(instruments) ==
    IF instruments = <<>> THEN <<>>
    ELSE (IF Head(instruments).ShortName # ""
          THEN << KMSTermRef(Head(instruments).ShortName, "instruments") >> ELSE <<>>)
         \o InstrumentTerms(Tail(instruments))

RECURSIVE PlatformTerms(_)
PlatformTerms(platforms) ==
    IF platforms = <<>> THEN <<>>
    ELSE (IF Head(platforms).ShortName # ""
          THEN << KMSTermRef(Head(platforms).ShortName, "platforms") >> ELSE <<>>)
         \o InstrumentTerms(Head(platforms).Instruments)
         \o PlatformTerms(Tail(platforms))

extract_collection_data(collection) ==
    [chunks |-> FieldChunk(collection.EntryTitle, "title")
                \o FieldChunk(collection.Abstract, "abstract")
                \o FieldChunk(collection.Purpose, "purpose"),
     kms_terms |-> ScienceKeywordTerms(collection.ScienceKeywords)
                   \o PlatformTerms(collection.Platforms)]

extract_variable_data(variable) ==
    [chunks |-> FieldChunk(variable.Name, "name")
                \o FieldChunk(variable.LongName, "long_name")
                \o FieldChunk(variable.Definition, "definition"),
     kms_terms |-> ScienceKeywordTerms(variable.ScienceKeywords)]

\* unknown concept types yield an empty ExtractionResult
extract_data(concept_type, concept_data) ==
    IF concept_type = "collection" THEN extract_collection_data(concept_data)
    ELSE IF concept_type = "variable" THEN extract_variable_data(concept_data)
    ELSE [chunks |-> <<>>, kms_terms |-> <<>>]

----------------------------------------------------------------------------
(* Embedding generator: the vector is a function of the text alone *)

Embedding(text) == <<"vec", text>>

\* sets of attributes whose generate call raises EmbeddingError
EmbedFailures ==
    { {}, {"abstract", "long_name"}, {"sciencekeywords", "platforms"} }

----------------------------------------------------------------------------
(* KMS client (util/kms/client.py) *)

\* str.upper on the terms of the model
Upper(s) == IF s = "sst" THEN "SST" ELSE IF s = "Terra" THEN "TERRA" ELSE s

\* the "concepts" of the pattern search response
KmsSearch(term, scheme) ==
    IF scheme = "sciencekeywords" /\ Upper(term) = "SST"
    THEN << [prefLabel |-> "SST ANOMALY", uuid |-> "uuid-ssta"],
            [prefLabel |-> "SST", uuid |-> "uuid-sst"] >>
    ELSE IF scheme = "platforms" /\ Upper(term) = "TERRA"
    THEN << [prefLabel |-> "Terra", uuid |-> "uuid-terra"] >>
    ELSE IF scheme = "instruments" /\ Upper(term) = "MODIS"
    THEN << [prefLabel |-> "MODIS", uuid |-> "uuid-modis"] >>
    ELSE IF scheme = "sciencekeywords" /\ Upper(term) = "PRECIPITATION"
    THEN << [prefLabel |-> "PRECIPITATION AMOUNT", uuid |-> "uuid-pamt"],
            [prefLabel |-> "PRECIPITATION RATE", uuid |-> "uuid-prate"] >>
    ELSE <<>>

\* the "definition" of the concept response
KmsDefinition(uuid) ==
    IF uuid = "uuid-sst" THEN "Sea surface temperature"
    ELSE IF uuid = "uuid-pamt" THEN "Water falling"
    ELSE None

KmsModes == {"up", "search_down", "detail_down"}

\* the first result is taken whatever its label
_extract_uuid_from_search_first(concepts, term) ==
    IF concepts # <<>> THEN concepts[1].uuid ELSE None

_extract_uuid_from_search(concepts, term) ==
    LET exact == { i \in DOMAIN concepts :
                     Upper(concepts[i].prefLabel) = Upper(term) /\ concepts[i].uuid # None }
    IN  IF exact # {} THEN concepts[CHOOSE i \in exact : \A j \in exact : i <= j].uuid
        ELSE IF concepts # <<>> THEN concepts[1].uuid
        ELSE None

_fetch_concept_definition(uuid, kms) ==
    IF kms = "detail_down" THEN None ELSE KmsDefinition(uuid)

KMSTerm(uuid, scheme, term, definition) ==
    [uuid |-> uuid, scheme |-> scheme, term |-> term, definition |-> definition]

\* lookup_term's None
NoTerm == KMSTerm(None, None, None, None)

\* the body of _lookup_term_cached, run on a cache miss
LookupUpstream(term, scheme, kms) ==
    IF kms = "search_down" THEN NoTerm
    ELSE LET uuid == _extract_uuid_from_search(KmsSearch(term, scheme), term) IN
         IF uuid = None THEN NoTerm
         ELSE KMSTerm(uuid, scheme, term, _fetch_concept_definition(uuid, kms))

\* lookup_term: afterwards the result is w.cache[<<term, scheme>>]
lookup_term(w, term, scheme) ==
    IF <<term, scheme>> \in DOMAIN w.cache THEN w
    ELSE [w EXCEPT !.cache = w.cache @@ (<<term, scheme>> :> LookupUpstream(term, scheme, w.in.kms))]

----------------------------------------------------------------------------
(* The psycopg connection (util/database.py _connection).  The connection  *)
(* is not in autocommit mode: the first statement opens a transaction,     *)
(* which stays open until commit().  The datastore never calls rollback(). *)

\* how the statement w.fault.at of a message fails:
\*   "server"  the server rejects the statement; the transaction is aborted
\*   "client"  psycopg raises before the statement reaches the server
\*             (e.g. DataError for a NUL byte in a text parameter);
\*             the transaction stays open with what it did so far
\*   "lost"    the connection breaks; the server rolls the transaction back
FaultKinds == {"server", "client", "lost"}

NoFault == [at |-> 0, kind |-> "none"]

Faults == {NoFault} \cup [at : 1..MaxFaultAt, kind : FaultKinds]

\* cur.execute(statement): tables is what the statement makes of the rows w.tx
Execute(w, tables) ==
    IF w.exc # "" THEN w
    ELSE IF w.status = "closed" THEN [w EXCEPT !.exc = "OperationalError"]
    ELSE IF w.status = "inerror" THEN [w EXCEPT !.exc = "InFailedSqlTransaction"]
    ELSE IF w.fault.at = w.n + 1 THEN
        CASE w.fault.kind = "server" ->
                [w EXCEPT !.n = w.n + 1, !.status = "inerror", !.exc = "DatabaseError"]
          [] w.fault.kind = "client" ->
                [w EXCEPT !.n = w.n + 1, !.status = "intrans", !.exc = "DataError"]
          [] OTHER ->
                [w EXCEPT !.n = w.n + 1, !.status = "closed", !.tx = w.db,
                          !.exc = "OperationalError"]
    ELSE [w EXCEPT !.n = w.n + 1, !.status = "intrans", !.tx = tables]

\* conn.commit(): COMMIT of an aborted transaction is a rollback
Commit(w) ==
    IF w.exc # "" THEN w
    ELSE IF w.status = "closed" THEN [w EXCEPT !.exc = "OperationalError"]
    ELSE IF w.status = "inerror" THEN [w EXCEPT !.status = "idle", !.tx = w.db]
    ELSE [w EXCEPT !.status = "idle", !.db = w.tx]

\* get_db_connection: reuse the cached connection unless it is None or closed
get_db_connection(st) == IF st \in {"none", "closed"} THEN "idle" ELSE st

----------------------------------------------------------------------------
(* Datastore (util/datastores/postgres.py) *)

EmptyTables ==
    [concept_embeddings |-> EmptyBag,      \* bag of rows: id is a fresh uuid4
     concept_associations |-> {},          \* unique (left_concept_id, right_concept_id)
     kms_embeddings |-> {},                \* primary key kms_uuid
     concept_kms_associations |-> {}]      \* primary key the whole triple

EmbeddingRow(concept_type, concept_id, chunk) ==
    [concept_type |-> concept_type, concept_id |-> concept_id,
     attribute |-> chunk[1], text_content |-> chunk[2], embedding |-> chunk[3]]

DeleteChunksOf(t, concept_id) ==
    [t EXCEPT !.concept_embeddings =
        [r \in { x \in DOMAIN t.concept_embeddings : x.concept_id # concept_id }
            |-> t.concept_embeddings[r]]]

RECURSIVE InsertChunks(_, _, _, _)
InsertChunks(w, concept_type, concept_id, chunks) ==
    IF chunks = <<>> THEN w
    ELSE InsertChunks(
            Execute(w, [w.tx EXCEPT !.concept_embeddings =
                        BagAdd(w.tx.concept_embeddings,
                               EmbeddingRow(concept_type, concept_id, Head(chunks)))]),
            concept_type, concept_id, Tail(chunks))

\* the INSERTs without the DELETE of the concept's rows before them
upsert_chunks_insert_only(w, concept_type, concept_id, chunks) ==
    IF chunks = <<>> THEN w
    ELSE Commit(InsertChunks(w, concept_type, concept_id, chunks))

\* the DELETE and the commit also without chunks
upsert_chunks_always_replacing(w, concept_type, concept_id, chunks) ==
    Commit(InsertChunks(Execute(w, DeleteChunksOf(w.tx, concept_id)),
                        concept_type, concept_id, chunks))

\* DELETE the rows of concept_id, INSERT the chunks, commit; no-op without chunks
upsert_chunks(w, concept_type, concept_id, chunks) ==
    IF chunks = <<>> THEN w
    ELSE Commit(InsertChunks(Execute(w, DeleteChunksOf(w.tx, concept_id)),
                             concept_type, concept_id, chunks))

delete_chunks(w, concept_id) ==
    Commit(Execute(w, DeleteChunksOf(w.tx, concept_id)))

ASSOCIATION_TYPE_MAP == << <<"variables", "variable">>, <<"citations", "citation">> >>

AssociationRow(lt, lid, rt, rid) ==
    [left_concept_type |-> lt, left_concept_id |-> lid,
     right_concept_type |-> rt, right_concept_id |-> rid]

\* INSERT ... ON CONFLICT (left_concept_id, right_concept_id) DO NOTHING
InsertAssociation(t, row) ==
    IF \E r \in t.concept_associations :
          r.left_concept_id = row.left_concept_id /\ r.right_concept_id = row.right_concept_id
    THEN t
    ELSE [t EXCEPT !.concept_associations = @ \cup {row}]

RECURSIVE InsertAssociations(_, _, _, _, _)
InsertAssociations(w, concept_type, concept_id, right_concept_type, concept_ids) ==
    IF concept_ids = <<>> THEN w
    ELSE InsertAssociations(
            Execute(w, InsertAssociation(w.tx,
                        AssociationRow(concept_type, concept_id,
                                       right_concept_type, Head(concept_ids)))),
            concept_type, concept_id, right_concept_type, Tail(concept_ids))

RECURSIVE InsertAssociationKinds(_, _, _, _, _)
InsertAssociationKinds(w, concept_type, concept_id, associations, kinds) ==
    IF kinds = <<>> THEN w
    ELSE InsertAssociationKinds(
            InsertAssociations(w, concept_type, concept_id, Head(kinds)[2],
                               DictGet(associations, Head(kinds)[1])),
            concept_type, concept_id, associations, Tail(kinds))

upsert_associations(w, concept_type, concept_id, associations) ==
    IF associations = {} THEN w
    ELSE Commit(InsertAssociationKinds(
            Execute(w, [w.tx EXCEPT !.concept_associations =
                        { r \in @ : r.left_concept_id # concept_id }]),
            concept_type, concept_id, associations, ASSOCIATION_TYPE_MAP))

delete_associations(w, concept_id) ==
    Commit(Execute(w, [w.tx EXCEPT !.concept_associations =
        { r \in @ : r.left_concept_id # concept_id /\ r.right_concept_id # concept_id }]))

\* the SELECT of get_kms_embedding; its result is KmsRowExists on the rows it saw
get_kms_embedding(w, kms_uuid) == Execute(w, w.tx)

\* the SELECT without its WHERE clause
KmsRowExistsAnyRow(t, kms_uuid) == t.kms_embeddings # {}

KmsRowExists(t, kms_uuid) == \E r \in t.kms_embeddings : r.kms_uuid = kms_uuid

KmsEmbeddingRow(kms_uuid, scheme, term, definition, embedding, updated_at) ==
    [kms_uuid |-> kms_uuid, scheme |-> scheme, term |-> term,
     definition |-> definition, embedding |-> embedding, updated_at |-> updated_at]

\* ON CONFLICT (kms_uuid) DO UPDATE SET every column
UpsertKmsRowReplacing(t, row) ==
    [t EXCEPT !.kms_embeddings = { r \in @ : r.kms_uuid # row.kms_uuid } \cup {row}]

\* INSERT ... ON CONFLICT (kms_uuid) DO UPDATE SET definition, embedding, updated_at
UpsertKmsRow(t, row) ==
    [t EXCEPT !.kms_embeddings =
        IF KmsRowExists(t, row.kms_uuid)
        THEN { IF r.kms_uuid = row.kms_uuid
               THEN [r EXCEPT !.definition = row.definition, !.embedding = row.embedding,
                              !.updated_at = row.updated_at]
               ELSE r : r \in @ }
        ELSE @ \cup {row}]

\* cur.fetchone() of a statement that did not raise
Returning(w, value) == IF w.exc # "" THEN w ELSE [w EXCEPT !.ret = value]

\* RETURNING (xmax = 0): the row was inserted, not updated
upsert_kms_embedding(w, kms_uuid, scheme, term, definition, embedding) ==
    Commit(Returning(
        Execute(w, UpsertKmsRow(w.tx, KmsEmbeddingRow(kms_uuid, scheme, term, definition,
                                                      embedding, w.now))),
        ~KmsRowExists(w.tx, kms_uuid)))

KmsAssociationRow(concept_type, concept_id, kms_uuid) ==
    [concept_type |-> concept_type, concept_id |-> concept_id, kms_uuid |-> kms_uuid]

RECURSIVE InsertKmsAssociations(_, _, _, _)
InsertKmsAssociations(w, concept_type, concept_id, kms_uuids) ==
    IF kms_uuids = <<>> THEN w
    ELSE InsertKmsAssociations(
            \* ON CONFLICT DO NOTHING: the table is a set of triples
            Execute(w, [w.tx EXCEPT !.concept_kms_associations =
                        @ \cup {KmsAssociationRow(concept_type, concept_id, Head(kms_uuids))}]),
            concept_type, concept_id, Tail(kms_uuids))

upsert_concept_kms_associations(w, concept_type, concept_id, kms_uuids) ==
    IF kms_uuids = <<>> THEN w
    ELSE Commit(InsertKmsAssociations(
            Execute(w, [w.tx EXCEPT !.concept_kms_associations =
                { r \in @ : ~(r.concept_type = concept_type /\ r.concept_id = concept_id) }]),
            concept_type, concept_id, kms_uuids))

\* the delete also removes the kms_embeddings rows no concept is linked to any more
delete_concept_kms_associations_cascading(w, concept_id) ==
    Commit(Execute(w, [w.tx EXCEPT
        !.concept_kms_associations = { r \in @ : r.concept_id # concept_id },
        !.kms_embeddings =
            { k \in @ : \E r \in w.tx.concept_kms_associations :
                           r.concept_id # concept_id /\ r.kms_uuid = k.kms_uuid }]))

delete_concept_kms_associations(w, concept_id) ==
    Commit(Execute(w, [w.tx EXCEPT !.concept_kms_associations =
        { r \in @ : r.concept_id # concept_id }]))

----------------------------------------------------------------------------
(* Embedding handler (lambdas/embedding/handler.py) *)

\* what the external services answer while one message is processed
Input(cmr, metadata, embed_fail, kms, associations, fault) ==
    [cmr |-> cmr,                      \* fetch_concept returns ("ok") or raises CMRError
     metadata |-> metadata,            \* the metadata fetch_concept returns
     embed_fail |-> embed_fail,        \* attributes whose embedding call fails
     kms |-> kms,                      \* the KMS service
     associations |-> associations,    \* items[0].meta.associations of the search response
     assoc_response |-> "ok",          \* how the request of fetch_associations went
     fault |-> fault]                  \* the datastore

\* no record finished yet
NoInput == Input("none", MdEmpty, {}, "up", NoAssociations, NoFault)

IsUpdate(body) == body.json /\ body.action = "concept-update"

\* the request of fetch_associations: answered with the associations; failed
\* with a RequestException (connection, timeout, HTTP error status, a body
\* that is not JSON); answered with JSON of another shape, such as an item
\* whose "meta" is null
AssociationResponses == {"ok", "request_error", "malformed"}

\* fetch_associations(concept_id): what it returns, or the exception it raises
fetch_associations(in) ==
    IF in.assoc_response = "ok" THEN [associations |-> in.associations, exc |-> ""]
    ELSE IF in.assoc_response = "request_error"
    THEN [associations |-> NoAssociations, exc |-> ""]
    ELSE [associations |-> NoAssociations, exc |-> "AttributeError"]

\* every service answers
NominalInputs(body) ==
    IF IsUpdate(body)
    THEN { Input("ok", Catalog(body.concept_id, body.revision_id), {}, "up", a, NoFault) :
             a \in IF body.concept_type = "collection" THEN AssociationValues
                   ELSE {NoAssociations} }
    ELSE { Input("ok", MdEmpty, {}, "up", NoAssociations, NoFault) }

\* the inputs of the model: at most one service misbehaves per message
Inputs(body) ==
    NominalInputs(body)
    \cup { [in EXCEPT !.fault = f] :
             in \in NominalInputs(body), f \in IF faults < MaxFaults THEN Faults ELSE {} }
    \cup IF IsUpdate(body)
         THEN { Input("error", MdEmpty, {}, "up", NoAssociations, NoFault) }
              \cup { Input("ok", Catalog(body.concept_id, body.revision_id), e, "up",
                            NoAssociations, NoFault) : e \in EmbedFailures }
         ELSE {}

\* a call the handler makes, unless an exception is propagating
Step(w, call, arg) ==
    IF w.exc # "" THEN w ELSE [w EXCEPT !.trace = Append(@, [call |-> call, arg |-> arg])]

text_to_embed(kms_term) ==
    IF kms_term.definition # None /\ kms_term.definition # ""
    THEN <<kms_term.term, ": ", kms_term.definition>>
    ELSE <<kms_term.term>>

\* the for loop of process_kms_terms; the result carries the world and kms_uuids
RECURSIVE process_kms_terms_loop(_, _, _, _)
RECURSIVE process_kms_term(_, _, _, _)
RECURSIVE embed_kms_term(_, _, _, _, _)

\* the EmbeddingError of a term propagates instead of skipping the term
embed_kms_term_raising(w, kms_term, kms_terms, seen, kms_uuids) ==
    IF w.exc # "" THEN [w |-> w, kms_uuids |-> kms_uuids]
    ELSE IF KmsRowExists(w.tx, kms_term.uuid)
    THEN process_kms_terms_loop(w, Tail(kms_terms), seen, kms_uuids)
    ELSE IF Head(kms_terms).scheme \in w.in.embed_fail
    THEN [w |-> [w EXCEPT !.exc = "ProcessingError: EmbeddingError"], kms_uuids |-> kms_uuids]
    ELSE process_kms_terms_loop(
            upsert_kms_embedding(w, kms_term.uuid, kms_term.scheme, kms_term.term,
                                 kms_term.definition, Embedding(text_to_embed(kms_term))),
            Tail(kms_terms), seen, kms_uuids)

\* the term is embedded and stored whether or not kms_embeddings has it
embed_kms_term_always(w, kms_term, kms_terms, seen, kms_uuids) ==
    IF w.exc # "" THEN [w |-> w, kms_uuids |-> kms_uuids]
    ELSE process_kms_terms_loop(
            upsert_kms_embedding(Step(Step(w, "generate", "kms"),
                                      "upsert_kms_embedding", kms_term.uuid),
                                 kms_term.uuid, kms_term.scheme, kms_term.term,
                                 kms_term.definition, Embedding(text_to_embed(kms_term))),
            Tail(kms_terms), seen, kms_uuids)

\* the term is embedded and stored unless kms_embeddings has it already;
\* w is the world after get_kms_embedding
embed_kms_term(w, kms_term, kms_terms, seen, kms_uuids) ==
    IF w.exc # "" THEN [w |-> w, kms_uuids |-> kms_uuids]
    ELSE IF KmsRowExists(w.tx, kms_term.uuid)
    THEN process_kms_terms_loop(w, Tail(kms_terms), seen, kms_uuids)
    ELSE IF Head(kms_terms).scheme \in w.in.embed_fail   \* EmbeddingError: skip the term
    THEN process_kms_terms_loop(Step(w, "generate", "kms"), Tail(kms_terms), seen, kms_uuids)
    ELSE process_kms_terms_loop(
            upsert_kms_embedding(Step(Step(w, "generate", "kms"),
                                      "upsert_kms_embedding", kms_term.uuid),
                                 kms_term.uuid, kms_term.scheme, kms_term.term,
                                 kms_term.definition, Embedding(text_to_embed(kms_term))),
            Tail(kms_terms), seen, kms_uuids)

\* the first term of kms_terms after lookup_term: w.cache holds its result
process_kms_term(w, kms_terms, seen, kms_uuids) ==
    LET kms_term == w.cache[<<Head(kms_terms).term, Head(kms_terms).scheme>>] IN
    IF kms_term.uuid = None
    THEN process_kms_terms_loop(w, Tail(kms_terms), seen, kms_uuids)
    ELSE embed_kms_term(get_kms_embedding(Step(w, "get_kms_embedding", kms_term.uuid),
                                          kms_term.uuid),
                        kms_term, kms_terms, seen, Append(kms_uuids, kms_term.uuid))

process_kms_terms_loop(w, kms_terms, seen, kms_uuids) ==
    IF kms_terms = <<>> \/ w.exc # "" THEN [w |-> w, kms_uuids |-> kms_uuids]
    ELSE IF <<Head(kms_terms).term, Head(kms_terms).scheme>> \in seen
    THEN process_kms_terms_loop(w, Tail(kms_terms), seen, kms_uuids)
    ELSE process_kms_term(lookup_term(Step(w, "lookup_term", Head(kms_terms).term),
                                      Head(kms_terms).term, Head(kms_terms).scheme),
                          kms_terms,
                          seen \cup {<<Head(kms_terms).term, Head(kms_terms).scheme>>},
                          kms_uuids)

process_kms_terms(w, kms_terms) == process_kms_terms_loop(w, kms_terms, {}, <<>>)

\* the embedding loop of process_concept_update: (attribute, text, embedding) tuples
embedded_chunks(chunks) ==
    [i \in DOMAIN chunks |->
        <<chunks[i].attribute, chunks[i].text_content, Embedding(chunks[i].text_content)>>]

\* the index of the first chunk whose embedding call fails
FirstFailure(chunks, embed_fail) ==
    CHOOSE i \in DOMAIN chunks :
        /\ chunks[i].attribute \in embed_fail
        /\ \A j \in 1..(i - 1) : chunks[j].attribute \notin embed_fail

\* the chunks embedded before the first failure are stored
EmbedChunksStoringPrefix(w, concept_type, concept_id, chunks) ==
    LET bad == { i \in DOMAIN chunks : chunks[i].attribute \in w.in.embed_fail } IN
    IF bad = {} THEN w
    ELSE [upsert_chunks(w, concept_type, concept_id,
                        embedded_chunks(SubSeq(chunks, 1, (CHOOSE i \in bad : \A j \in bad : i <= j) - 1)))
            EXCEPT !.exc = "ProcessingError: EmbeddingError"]

\* the embedding loop raises ProcessingError at the first EmbeddingError
EmbedChunks(w, concept_type, concept_id, chunks) ==
    IF \E i \in DOMAIN chunks : chunks[i].attribute \in w.in.embed_fail
    THEN [w EXCEPT !.exc = "ProcessingError: EmbeddingError",
                   !.trace = @ \o [i \in 1..FirstFailure(chunks, w.in.embed_fail) |->
                                      [call |-> "generate", arg |-> concept_type]]]
    ELSE [w EXCEPT !.trace = @ \o [i \in DOMAIN chunks |->
                                      [call |-> "generate", arg |-> concept_type]]]

\* if kms_uuids: upsert_concept_kms_associations; k is what process_kms_terms left
link_kms_terms(k, concept_type, concept_id) ==
    IF k.kms_uuids # <<>>
    THEN upsert_concept_kms_associations(
            Step(k.w, "upsert_concept_kms_associations", Len(k.kms_uuids)),
            concept_type, concept_id, k.kms_uuids)
    ELSE k.w

\* fetch_associations and upsert_associations, for collections
store_associations(w, concept_type, concept_id) ==
    IF w.exc = "" /\ concept_type = "collection"
    THEN IF fetch_associations(w.in).exc # ""
         THEN [Step(w, "fetch_associations", concept_id)
                  EXCEPT !.exc = fetch_associations(w.in).exc]
         ELSE IF fetch_associations(w.in).associations = {}
         THEN Step(w, "fetch_associations", concept_id)
         ELSE upsert_associations(
                 Step(Step(w, "fetch_associations", concept_id),
                      "upsert_associations", concept_id),
                 concept_type, concept_id, fetch_associations(w.in).associations)
    ELSE w

\* process_concept_update after extract_data: embed, upsert_chunks,
\* process_kms_terms, the associations; a step is skipped once w.exc is set
\* the KMS terms are processed and linked before the chunks are stored
store_extraction_kms_first(w, concept_type, concept_id, extraction) ==
    store_associations(
        upsert_chunks(Step(link_kms_terms(
                              process_kms_terms(
                                  EmbedChunks(w, concept_type, concept_id, extraction.chunks),
                                  extraction.kms_terms),
                              concept_type, concept_id),
                           "upsert_chunks", Len(extraction.chunks)),
                      concept_type, concept_id, embedded_chunks(extraction.chunks)),
        concept_type, concept_id)

store_extraction(w, concept_type, concept_id, extraction) ==
    store_associations(
        link_kms_terms(
            process_kms_terms(
                upsert_chunks(Step(EmbedChunks(w, concept_type, concept_id, extraction.chunks),
                                   "upsert_chunks", Len(extraction.chunks)),
                              concept_type, concept_id, embedded_chunks(extraction.chunks)),
                extraction.kms_terms),
            concept_type, concept_id),
        concept_type, concept_id)

process_concept_update(w, message) ==
    IF \/ message.concept_type = Missing
       \/ message.concept_id = Missing
       \/ message.revision_id = MissingRevision
    THEN [w EXCEPT !.exc = "KeyError"]
    ELSE IF w.in.cmr = "error"
    THEN [Step(w, "fetch_concept", message.concept_id)
             EXCEPT !.exc = "ProcessingError: CMRError"]
    ELSE store_extraction(Step(Step(w, "fetch_concept", message.concept_id),
                               "extract_data", message.concept_type),
                          message.concept_type, message.concept_id,
                          extract_data(message.concept_type, w.in.metadata))

process_concept_delete(w, message) ==
    IF message.concept_id = Missing THEN [w EXCEPT !.exc = "KeyError"]
    ELSE delete_concept_kms_associations(
            delete_associations(
                delete_chunks(w, message.concept_id),
                message.concept_id),
            message.concept_id)

\* record["body"] is the body; any other action is logged and ignored
process_message(w, body) ==
    IF ~body.json THEN [w EXCEPT !.exc = "JSONDecodeError"]
    ELSE IF body.action = "concept-update" THEN process_concept_update(w, body)
    ELSE IF body.action = "concept-delete" THEN process_concept_delete(w, body)
    ELSE w

\* the world in which process_message runs for one record
World(in) ==
    [db |-> db, tx |-> tx, status |-> status, n |-> 0, fault |-> in.fault,
     exc |-> "", cache |-> cache, in |-> in, now |-> 0, ret |-> None,
     trace |-> <<>>]

\* record["messageId"] of the i-th record of a batch
MessageId(i) == i

\* the record the for loop of handler takes next
NextRecordReversed == Len(batch) - idx

NextRecord == idx + 1

\* only ProcessingError is reported
ReportFailureProcessingErrorOnly(failures, message_id, exc) ==
    IF exc \in {"ProcessingError: CMRError", "ProcessingError: EmbeddingError"}
    THEN Append(failures, message_id)
    ELSE failures

\* except Exception: batch_item_failures.append({"itemIdentifier": message_id})
ReportFailure(failures, message_id, exc) ==
    IF exc # "" THEN Append(failures, message_id) ELSE failures

----------------------------------------------------------------------------
(* Ingest handler (lambdas/ingest/handler.py) *)

MaxRecords == 2   \* SNS records per invocation of the ingest handler

\* str() of a revision-id
Str(n) == ToString(n)

\* the Message of an SNS record: a collection update, a variable delete, and
\* bodies that are not JSON, lack a field, or carry an action or a concept
\* type outside of the schema
IngestMessages ==
    { Body("concept-update", "collection", "C1-P", 2),
      Body("concept-delete", "variable", "V1-P", 4),
      Body("concept-update", "collection", "C1-P", MissingRevision) }
    \cup InvalidBodies

\* validate_message: the exception it raises ("" when it returns)
validate_message(message) ==
    IF \/ message.concept_type = Missing \/ message.concept_id = Missing
       \/ message.action = Missing \/ message.revision_id = MissingRevision
    THEN "InvalidMessageError: Missing required fields"
    ELSE IF message.action \notin {"concept-update", "concept-delete"}
    THEN "InvalidMessageError: Invalid action"
    ELSE ""

\* the deduplication id tells an update from a delete
build_fifo_message_by_action(message) ==
    [MessageBody |-> message,
     MessageGroupId |-> message.concept_type \o ":" \o message.concept_id,
     MessageDeduplicationId |-> message.concept_id \o ":" \o Str(message.revision_id)
                                    \o ":" \o message.action]

\* build_fifo_message: the parameters of send_message
build_fifo_message(message) ==
    [MessageBody |-> message,
     MessageGroupId |-> message.concept_type \o ":" \o message.concept_id,
     MessageDeduplicationId |-> message.concept_id \o ":" \o Str(message.revision_id)]

\* a call of the queue client: what was sent for which record (or batch), and
\* whether the queue accepted it
SqsCall(of, params, accepted) == [of |-> of, params |-> params, accepted |-> accepted]

\* process_record: exc is the exception it raises ("" when it returns its
\* result), sends the send_message call it made
process_record(record, n, send_ok) ==
    IF ~record.Message.json
    THEN [exc |-> "InvalidMessageError: Invalid JSON in SNS message", sends |-> <<>>]
    ELSE IF validate_message(record.Message) # ""
    THEN [exc |-> validate_message(record.Message), sends |-> <<>>]
    ELSE [exc |-> IF send_ok THEN "" ELSE "ClientError",
          sends |-> << SqsCall(n, build_fifo_message(record.Message), send_ok) >>]

IngestIdle ==
    [pc |-> "idle", records |-> <<>>, i |-> 0, results |-> <<>>, errors |-> <<>>,
     sends |-> <<>>]

\* the first exception ends the handler
handler_iteration_aborting(ing, r) ==
    IF r.exc = ""
    THEN [ing EXCEPT !.i = ing.i + 1, !.sends = ing.sends \o r.sends,
              !.results = Append(ing.results,
                                 [concept_id |-> ing.records[ing.i + 1].Message.concept_id,
                                  status |-> "queued"])]
    ELSE [ing EXCEPT !.pc = "done", !.sends = ing.sends \o r.sends]

\* one iteration of the for loop of handler; r is what process_record did
handler_iteration(ing, r) ==
    IF r.exc = ""
    THEN [ing EXCEPT !.i = ing.i + 1, !.sends = ing.sends \o r.sends,
              !.results = Append(ing.results,
                                 [concept_id |-> ing.records[ing.i + 1].Message.concept_id,
                                  status |-> "queued"])]
    ELSE [ing EXCEPT !.i = ing.i + 1, !.sends = ing.sends \o r.sends,
              !.errors = Append(ing.errors,
                                [message_id |-> ing.records[ing.i + 1].MessageId,
                                 error |-> r.exc])]

\* the response of handler
IngestResponse(ing) ==
    [processed |-> Len(ing.results), failed |-> Len(ing.errors),
     results |-> ing.results, errors |-> ing.errors]

----------------------------------------------------------------------------
(* Bootstrap driver (lambdas/bootstrap/handler.py) *)

MAX_RETRIES == 3
INITIAL_BACKOFF_SECONDS == 1

\* the slice of send_to_queue: messages[i : i + 10]
SendBatchSize == 10

MaxSendFailures == 4   \* send_message_batch calls of one invocation that fail

\* an item of a CMR search page: its meta
Item(concept_id, revision_id) == [concept_id |-> concept_id, revision_id |-> revision_id]

\* the items from .. to of the search result
Items(from, to) ==
    [k \in 1..(to - from + 1) |->
        Item("C" \o ToString(from + k - 1) \o "-P", 1 + ((from + k - 1) % 3))]

Min(a, b) == IF a <= b THEN a ELSE b

\* the search endpoint as one invocation sees it: the items matching
\* search_params, the page_size of the event, the "hits" of every response
\* (0 also stands for a response without that key) and the request that
\* fails with a RequestException (0: none)
CmrCatalog(items, page_size, hits, fail_at) ==
    [items |-> items, page_size |-> page_size, hits |-> hits, fail_at |-> fail_at]

\* 25 items in pages of 10 and in one page of the default size; 11 items, the
\* third without concept-id; two revisions of a concept and an item without
\* revision-id; 3 items in pages of 2, and 4 of which the first has no
\* concept-id; no item; responses without
\* "hits"; hits above the items served; a failing second request
SearchCatalogs ==
    { CmrCatalog(Items(1, 25), 10, 25, 0),
      CmrCatalog(Items(1, 25), 500, 25, 0),
      CmrCatalog([Items(1, 11) EXCEPT ![3] = Item(Missing, 1)], 500, 11, 0),
      CmrCatalog(<< Item("C1-P", 1), Item("C1-P", 2), Item("C2-P", MissingRevision) >>,
                 500, 3, 0),
      CmrCatalog(Items(1, 3), 2, 3, 0),
      CmrCatalog([Items(1, 4) EXCEPT ![1] = Item(Missing, 1)], 2, 4, 0),
      CmrCatalog(<< >>, 500, 0, 0),
      CmrCatalog(Items(1, 3), 2, 0, 0),
      CmrCatalog(Items(1, 4), 2, 5, 0),
      CmrCatalog(Items(1, 3), 2, 3, 2) }

\* the "items" of the response to the request for page_num
ServePage(catalog, page_num) ==
    IF (page_num - 1) * catalog.page_size >= Len(catalog.items) THEN << >>
    ELSE SubSeq(catalog.items, (page_num - 1) * catalog.page_size + 1,
                Min(page_num * catalog.page_size, Len(catalog.items)))

CONCEPT_ENDPOINTS == {"collection", "variable", "citation"}

\* the search goes on when total_fetched equals hits
FetchedAllStrict(total_fetched, hits) == total_fetched > hits

\* if total_fetched >= hits: break
FetchedAll(total_fetched, hits) == total_fetched >= hits

\* extract_concept_info raises CMRError for an item without identifiers
HasIdentifiers(item) ==
    item.concept_id # Missing /\ item.revision_id # MissingRevision /\ item.revision_id # 0

extract_concept_info(concept_type, item) ==
    Body("concept-update", concept_type, item.concept_id, item.revision_id)

\* the first item without identifiers ends the page
RECURSIVE PageMessagesUntilError(_, _)
PageMessagesUntilError(concept_type, items) ==
    IF items = <<>> \/ ~HasIdentifiers(Head(items)) THEN <<>>
    ELSE << extract_concept_info(concept_type, Head(items)) >>
         \o PageMessagesUntilError(concept_type, Tail(items))

\* the messages handler builds from the items of a page
RECURSIVE PageMessages(_, _)
PageMessages(concept_type, items) ==
    IF items = <<>> THEN <<>>
    ELSE (IF HasIdentifiers(Head(items))
          THEN << extract_concept_info(concept_type, Head(items)) >> ELSE <<>>)
         \o PageMessages(concept_type, Tail(items))

\* the items of a page for which extract_concept_info raises CMRError
PageErrors(items) == Len(SelectSeq(items, LAMBDA item : ~HasIdentifiers(item)))

\* the group is the concept id alone
EntryGroupedByConceptId(n, msg) ==
    [Id |-> Str(n),
     MessageBody |-> msg,
     MessageGroupId |-> msg.concept_id,
     MessageDeduplicationId |-> msg.concept_id \o ":" \o Str(msg.revision_id)]

\* the entry of send_message_batch for the n-th message of the batch, from 0
Entry(n, msg) ==
    [Id |-> Str(n),
     MessageBody |-> msg,
     MessageGroupId |-> msg.concept_type \o ":" \o msg.concept_id,
     MessageDeduplicationId |-> msg.concept_id \o ":" \o Str(msg.revision_id)]

\* the slice takes one message more than the batch size
BatchOfOneMore(messages, i) == SubSeq(messages, i + 1, Min(i + SendBatchSize + 1, Len(messages)))

\* batch = messages[i : i + 10]
BatchOf(messages, i) == SubSeq(messages, i + 1, Min(i + SendBatchSize, Len(messages)))

\* entries, built from enumerate(batch)
Entries(msgs) == [k \in 1..Len(msgs) |-> Entry(k - 1, msgs[k])]

EntryIds(entries) == { entries[k].Id : k \in DOMAIN entries }

\* the whole batch is sent again
RetryEntriesWholeBatch(pending_entries, failed_ids) == pending_entries

\* pending_entries = [e for e in pending_entries if e["Id"] in failed_ids]
RetryEntries(pending_entries, failed_ids) ==
    SelectSeq(pending_entries, LAMBDA e : e.Id \in failed_ids)

\* the backoff grows by one second per attempt
BackoffLinear(attempt) == INITIAL_BACKOFF_SECONDS * (attempt + 1)

\* backoff = INITIAL_BACKOFF_SECONDS * (2**attempt)
Backoff(attempt) == INITIAL_BACKOFF_SECONDS * (2 ^ attempt)

NoException == [type |-> "", failed |-> {}]

\* no call made yet
NoResponse == [attempt |-> 0, Entries |-> <<>>, Successful |-> {}, Failed |-> {}]

BootstrapIdle ==
    [pc |-> "idle", concept_type |-> "collection", dry_run |-> FALSE, queue_url |-> None,
     \* the generator search_cmr: where it stands, its locals, the page it yielded
     gen |-> "start", page_num |-> 0, total_fetched |-> 0, hits |-> 0, items |-> <<>>,
     messages |-> <<>>, i |-> 0, pending_entries |-> <<>>, attempt |-> 0, sent |-> 0,
     total_processed |-> 0, total_sent |-> 0, total_errors |-> 0,
     exc |-> NoException,
     \* history
     cmr |-> CmrCatalog(<< >>, 500, 0, 0),   \* the catalog searched
     requests |-> <<>>,      \* the page_num of every request of search_cmr
     search |-> <<>>,        \* every page search_cmr has yielded in this invocation
     calls |-> 0,            \* send_message_batch calls so far
     batches |-> 0,          \* batches send_to_queue has started so far
     last |-> NoResponse,    \* the last call and its response
     sleeps |-> <<>>,        \* the time.sleep calls of the running batch
     accepted |-> <<>>,      \* deduplication ids of the entries reported Successful
     failures |-> 0]         \* calls that raised or reported Failed entries

\* next() on the generator search_cmr(concept_type, search_params, page_size):
\* from its start or from its yield to the next yield, its end or its raise
search_cmr(b) ==
    IF b.gen = "start" /\ b.concept_type \notin CONCEPT_ENDPOINTS
    THEN [b EXCEPT !.gen = "raised"]
    ELSE IF b.gen = "yielded" /\ FetchedAll(b.total_fetched, b.hits)
    THEN [b EXCEPT !.gen = "ended"]
    ELSE IF b.cmr.fail_at = b.page_num + 1
    THEN [b EXCEPT !.page_num = b.page_num + 1, !.gen = "raised",
                   !.requests = Append(b.requests, b.page_num + 1)]
    ELSE IF ServePage(b.cmr, b.page_num + 1) = << >>
    THEN [b EXCEPT !.page_num = b.page_num + 1, !.gen = "ended",
                   !.requests = Append(b.requests, b.page_num + 1)]
    ELSE [b EXCEPT !.page_num = b.page_num + 1, !.gen = "yielded",
                   !.requests = Append(b.requests, b.page_num + 1),
                   !.items = ServePage(b.cmr, b.page_num + 1),
                   !.total_fetched = b.total_fetched + Len(ServePage(b.cmr, b.page_num + 1)),
                   !.hits = b.cmr.hits,
                   !.search = Append(b.search, ServePage(b.cmr, b.page_num + 1))]

\* the top of the loop over the batches: entries is built, the retry loop starts
StartBatch(b, i) ==
    [b EXCEPT !.pc = "send", !.i = i,
              !.pending_entries = Entries(BatchOf(b.messages, i)),
              !.attempt = 0, !.sleeps = <<>>, !.batches = b.batches + 1]

\* send_to_queue(queue_url, messages) up to its first call of the queue
\* client; without messages it returns 0 at once
send_to_queue(b) ==
    IF b.messages = <<>> THEN b ELSE StartBatch([b EXCEPT !.sent = 0], 0)

\* the items of the page are counted
CountItems(b, messages) ==
    [b EXCEPT !.messages = messages,
              !.total_processed = b.total_processed + Len(messages),
              !.total_errors = b.total_errors + PageErrors(b.items)]

\* the queue is called in a dry run too
StartPageAlwaysSending(b, messages) == send_to_queue(CountItems(b, messages))

\* one iteration of "for items in search_cmr(...)" up to the return of a dry
\* run's branch or to the first call of send_to_queue
StartPage(b, messages) ==
    IF b.dry_run
    THEN [CountItems(b, messages) EXCEPT !.total_sent = b.total_sent + Len(messages)]
    ELSE send_to_queue(CountItems(b, messages))

\* the retry loop ends without failures: the next batch, or send_to_queue
\* returns sent and handler adds it to total_sent
NextBatch(b) ==
    IF b.i + SendBatchSize < Len(b.messages)
    THEN StartBatch(b, b.i + SendBatchSize)
    ELSE [b EXCEPT !.pc = "page", !.total_sent = b.total_sent + b.sent]

\* the response of send_message_batch: the Ids reported Failed; the other
\* entries are reported Successful
Response(b, failed) ==
    [attempt |-> b.attempt, Entries |-> b.pending_entries,
     Successful |-> EntryIds(b.pending_entries) \ failed, Failed |-> failed]

\* "sent += len(Successful)" after a call that returned
Counted(b, failed) ==
    [b EXCEPT !.calls = b.calls + 1,
              !.last = Response(b, failed),
              !.sent = b.sent + Cardinality(EntryIds(b.pending_entries) \ failed),
              !.accepted = b.accepted \o
                  [k \in 1..Len(SelectSeq(b.pending_entries, LAMBDA e : e.Id \notin failed)) |->
                      SelectSeq(b.pending_entries,
                                LAMBDA e : e.Id \notin failed)[k].MessageDeduplicationId],
              !.failures = b.failures + (IF failed = {} THEN 0 ELSE 1)]

\* after the last retry the entries still failing are dropped and the loop
\* over the batches goes on
AfterResponseGivingUp(b, failed) ==
    IF failed = {} THEN NextBatch(b)
    ELSE IF b.attempt < MAX_RETRIES
    THEN [b EXCEPT !.pending_entries = RetryEntries(b.pending_entries, failed),
                   !.sleeps = Append(b.sleeps, Backoff(b.attempt)),
                   !.attempt = b.attempt + 1]
    ELSE NextBatch(b)

\* the rest of an iteration of the retry loop; b has counted the response
AfterResponse(b, failed) ==
    IF failed = {} THEN NextBatch(b)
    ELSE IF b.attempt < MAX_RETRIES
    THEN [b EXCEPT !.pending_entries = RetryEntries(b.pending_entries, failed),
                   !.sleeps = Append(b.sleeps, Backoff(b.attempt)),
                   !.attempt = b.attempt + 1]
    ELSE [b EXCEPT !.pending_entries = RetryEntries(b.pending_entries, failed),
                   !.pc = "raised",
                   !.exc = [type |-> "RuntimeError", failed |-> failed]]

\* send_message_batch itself raises: the exception leaves send_to_queue and handler
CallRaises(b) ==
    [b EXCEPT !.calls = b.calls + 1, !.failures = b.failures + 1,
              !.last = [Response(b, {}) EXCEPT !.Successful = {}],
              !.pc = "raised", !.exc = [type |-> "ClientError", failed |-> {}]]

\* what a failing call reports as Failed: the first entry, or every entry
FailedChoices(entries) == { {entries[1].Id}, EntryIds(entries) }

----------------------------------------------------------------------------
(* Concurrent invocations of the embedding handler.  Each runs in its own   *)
(* execution environment with its own connection; the server runs their     *)
(* transactions at READ COMMITTED, the default psycopg.connect leaves       *)

MaxInvocations == 2   \* invocations one execution environment serves

\* the execution environments
Sessions == {1, 2}

\* what fetch_concept returns to the invocations, which all process updates
\* of the collection C1-P
SessionMetadata == {MdA, MdB}

\* the uuids process_kms_terms handles for md, in order: one per distinct
\* (term, scheme) that lookup_term resolves
SessionUuids(md) ==
    LET refs == extract_data("collection", md).kms_terms IN
    LET firsts == SelectSeq([i \in 1..Len(refs) |-> i],
                     LAMBDA i : /\ \A j \in 1..(i - 1) :
                                     <<refs[j].term, refs[j].scheme>>
                                        # <<refs[i].term, refs[i].scheme>>
                                /\ LookupUpstream(refs[i].term, refs[i].scheme, "up").uuid
                                        # None) IN
    [k \in 1..Len(firsts) |->
        LookupUpstream(refs[firsts[k]].term, refs[firsts[k]].scheme, "up").uuid]

\* a row of concept_embeddings with its id, a fresh uuid4
StoredRow(s, run, row) == [id |-> <<s, run, row.attribute>>, row |-> row]

\* the rows upsert_chunks of an invocation inserts for md
SessionRows(s, run, md) ==
    { StoredRow(s, run, EmbeddingRow("collection", "C1-P", chunk)) :
        chunk \in Range(embedded_chunks(extract_data("collection", md).chunks)) }

SessionIdle ==
    [pc |-> "idle", md |-> MdEmpty, runs |-> 0,
     snapshot |-> {},       \* the rows the running DELETE found
     deleted |-> {},        \* rows deleted by the open transaction
     inserted |-> {},       \* rows inserted by the open transaction
     terms |-> <<>>,        \* the uuids process_kms_terms has still to handle
     kms_pending |-> {},    \* uuids upserted by the open transaction
     kms_uuids |-> <<>>]

ConcIdle ==
    [rows |-> {},           \* committed rows of concept_embeddings
     kms |-> {},            \* kms_uuid of the committed rows of kms_embeddings
     links |-> {},          \* committed concept_kms_associations of C1-P
     s |-> [s \in Sessions |-> SessionIdle],
     \* history
     embeds |-> EmptyBag,   \* the uuids the embedding generator was called for
     upserts |-> EmptyBag]  \* the uuids upsert_kms_embedding was called for

----------------------------------------------------------------------------
(* RoutingEmbeddingGenerator (util/embeddings/bedrock.py) *)

MaxGenerate == 2   \* generate calls on one router

\* the generators dict of a router, key -> generator: that of
\* get_embedding_generator; a concept-level key; the example of the
\* docstring; a key of each level for collections; one without "default";
\* the empty dict
RouterGenerators ==
    { ("collection.science_keywords" :> "kms_sciencekeywords")
        @@ ("collection.platforms" :> "kms_platforms")
        @@ ("variable.science_keywords" :> "kms_sciencekeywords_v")
        @@ ("default" :> "base"),
      ("collection" :> "collection_gen") @@ ("default" :> "base"),
      ("collection.abstract" :> "titan") @@ ("variable" :> "variable_gen")
        @@ ("default" :> "base"),
      ("collection.title" :> "title_gen") @@ ("collection" :> "collection_gen")
        @@ ("default" :> "base"),
      ("collection" :> "collection_gen"),
      << >> }

\* the default_generator argument
DefaultGenerators == {None, "fallback"}

\* the concept_type and attribute arguments of generate
GenerateConceptTypes == {None, "", "collection", "variable"}
GenerateAttributes == {None, "", "title", "science_keywords"}

\* bool(x) of an optional string
Truthy(x) == x # None /\ x # ""

NoRouter ==
    [pc |-> "none", generators |-> << >>, default_generator |-> None, default |-> None,
     generates |-> 0,     \* calls of generate
     calls |-> << >>]     \* the generate calls delegated to the registered generators

\* RoutingEmbeddingGenerator(generators, default_generator)
RoutingEmbeddingGenerator(generators, default_generator) ==
    [NoRouter EXCEPT
        !.generators = generators,
        !.default_generator = default_generator,
        !.default = IF default_generator # None THEN default_generator
                    ELSE IF "default" \in DOMAIN generators THEN generators["default"]
                    ELSE None,
        !.pc = IF default_generator = None /\ "default" \notin DOMAIN generators
               THEN "ValueError" ELSE "ok"]

\* the concept-level key is tried before the key of the attribute
_get_generator_concept_first(r, concept_type, attribute) ==
    IF Truthy(concept_type) /\ concept_type \in DOMAIN r.generators
    THEN r.generators[concept_type]
    ELSE IF /\ Truthy(concept_type) /\ Truthy(attribute)
            /\ (concept_type \o "." \o attribute) \in DOMAIN r.generators
    THEN r.generators[concept_type \o "." \o attribute]
    ELSE r.default

_get_generator(r, concept_type, attribute) ==
    IF /\ Truthy(concept_type) /\ Truthy(attribute)
       /\ (concept_type \o "." \o attribute) \in DOMAIN r.generators
    THEN r.generators[concept_type \o "." \o attribute]
    ELSE IF Truthy(concept_type) /\ concept_type \in DOMAIN r.generators
    THEN r.generators[concept_type]
    ELSE r.default

\* generate(text, concept_type, attribute): the call handed to the generator
generate(r, text, concept_type, attribute) ==
    [r EXCEPT !.generates = r.generates + 1,
              !.calls = Append(r.calls,
                               [generator |-> _get_generator(r, concept_type, attribute),
                                text |-> text, concept_type |-> concept_type,
                                attribute |-> attribute])]

----------------------------------------------------------------------------
(* The KMS client of one process (util/kms/client.py): the lru_cache of    *)
(* _lookup_term_cached with its bound and its order of use.  client.cache  *)
(* is the cache, least recently used entry first; client.log is the        *)
(* history of the calls: per call its key, what KMS answered, the result,  *)
(* the exception and the number of requests sent to KMS.                   *)

LruMaxsize == 2   \* lru_cache(maxsize=2000), scaled to the keys of the model
MaxLookups == 4   \* calls of lookup_term and clear_cache in one process

\* "malformed": the search answers with a JSON array, data.get raises
\* AttributeError, which _extract_uuid_from_search does not catch
ClientKmsModes == KmsModes \cup {"malformed"}

\* the (term, scheme) pairs a process looks up
ClientKeys ==
    { <<"sst", "sciencekeywords">>, <<"PRECIPITATION", "sciencekeywords">>,
      <<"UNKNOWN_TERM", "sciencekeywords">>, <<"TERRA", "platforms">> }

NoGenerate ==
    [text |-> <<>>, scheme |-> None, fetched |-> <<>>, base |-> <<>>, exc |-> ""]

NoClient ==
    [cache |-> <<>>, log |-> <<>>,
     generates |-> 0,      \* calls of KMSEnrichedEmbeddingGenerator.generate
     gen |-> NoGenerate]   \* history: the last of them

CacheKeys(c) == { c.cache[i].key : i \in DOMAIN c.cache }

CacheIndex(c, key) == CHOOSE i \in DOMAIN c.cache : c.cache[i].key = key

Without(s, i) == SubSeq(s, 1, i - 1) \o SubSeq(s, i + 1, Len(s))

LogEntry(op, key, kms, result, exc, upstream) ==
    [op |-> op, key |-> key, kms |-> kms, result |-> result, exc |-> exc,
     upstream |-> upstream]

\* a hit moves the entry to the most recently used end
CacheHit(c, key, kms) ==
    LET i == CacheIndex(c, key) IN
    [c EXCEPT !.cache = Append(Without(c.cache, i), c.cache[i]),
              !.log = Append(c.log, LogEntry("lookup", key, kms, c.cache[i].value, "", 0))]

\* a miss runs the function and stores what it returns, evicting the least
\* recently used entry of a full cache; an exception stores nothing
CacheMiss(c, key, kms, stored) ==
    IF kms = "malformed"
    THEN [c EXCEPT !.log = Append(c.log, LogEntry("lookup", key, kms, NoTerm, "AttributeError", 1))]
    ELSE LET result == LookupUpstream(key[1], key[2], kms)
             entry == [key |-> key, value |-> result]
         IN  [c EXCEPT
                !.cache = IF ~stored THEN c.cache
                          ELSE IF Len(c.cache) >= LruMaxsize THEN Append(Tail(c.cache), entry)
                          ELSE Append(c.cache, entry),
                !.log = Append(c.log, LogEntry("lookup", key, kms, result, "",
                                               IF result = NoTerm THEN 1 ELSE 2))]

\* a result of None is not kept
_lookup_term_cached_dropping_none(c, term, scheme, kms) ==
    IF <<term, scheme>> \in CacheKeys(c) THEN CacheHit(c, <<term, scheme>>, kms)
    ELSE CacheMiss(c, <<term, scheme>>, kms, LookupUpstream(term, scheme, kms) # NoTerm)

_lookup_term_cached(c, term, scheme, kms) ==
    IF <<term, scheme>> \in CacheKeys(c) THEN CacheHit(c, <<term, scheme>>, kms)
    ELSE CacheMiss(c, <<term, scheme>>, kms, TRUE)

clear_cache(c) ==
    [c EXCEPT !.cache = <<>>,
              !.log = Append(c.log, LogEntry("clear", <<None, None>>, None, NoTerm, "", 0))]

Last(s) == s[Len(s)]

----------------------------------------------------------------------------
(* KMSEnrichedEmbeddingGenerator (util/embeddings/kms.py).  A text is the  *)
(* sequence of its lines, a line the segments of its path between the      *)
(* whitespace before and after it; a blank line has no segment.            *)

MaxEnrich == 1    \* generate calls on one enriched generator

Line(lead, path, trail) == [lead |-> lead, path |-> path, trail |-> trail]

BlankLine == Line("", <<>>, "")

EnrichTexts ==
    { << Line("", <<"EARTH SCIENCE", "ATMOSPHERE", "PRECIPITATION">>, "") >>,
      << Line("", <<"EARTH SCIENCE", "PRECIPITATION">>, ""), Line("", <<"UNKNOWN_TERM">>, "") >>,
      << Line("", <<"sst">>, ""), BlankLine, Line("", <<"OCEANS", "sst">>, "") >>,
      << Line(" ", <<"OCEANS", "UNKNOWN_TERM">>, " ") >>,
      << Line("", <<"UNKNOWN_TERM">>, " "), Line("  ", <<"sst">>, "") >>,
      << Line("", <<"PRECIPITATION">>, ""), BlankLine >>,
      << BlankLine >> }

EnrichSchemes == {"sciencekeywords", "platforms"}

RECURSIVE RenderPath(_)
RenderPath(path) ==
    IF path = <<>> THEN ""
    ELSE IF Len(path) = 1 THEN path[1]
    ELSE path[1] \o " > " \o RenderPath(Tail(path))

\* the characters of a line
RenderLine(l) == l.lead \o RenderPath(l.path) \o l.trail

\* "\n".join(lines)
RECURSIVE JoinLines(_)
JoinLines(lines) ==
    IF lines = <<>> THEN ""
    ELSE IF Len(lines) = 1 THEN lines[1]
    ELSE lines[1] \o "\n" \o JoinLines(Tail(lines))

\* line.strip()
Strip(l) == Line("", l.path, "")

RECURSIVE DropBlankHead(_)
DropBlankHead(lines) ==
    IF lines # <<>> /\ Head(lines).path = <<>> THEN DropBlankHead(Tail(lines)) ELSE lines

RECURSIVE DropBlankLast(_)
DropBlankLast(lines) ==
    IF lines # <<>> /\ Last(lines).path = <<>>
    THEN DropBlankLast(SubSeq(lines, 1, Len(lines) - 1)) ELSE lines

\* [line.strip() for line in (text.strip().split("\n") if "\n" in text else [text])]
StrippedLines(text) ==
    LET inner == DropBlankLast(DropBlankHead(text)) IN
    IF inner = <<>> THEN << BlankLine >>
    ELSE [i \in DOMAIN inner |-> Strip(inner[i])]

_extract_term(l) == Last(l.path)

Fetched(c, term, definition, exc) ==
    [c |-> c, term |-> term, definition |-> definition, exc |-> exc]

\* what _fetch_definition makes of the lookup that is last in looked.log
FetchedOf(looked, term, caught) ==
    Fetched(looked, term,
            IF Last(looked.log).exc = "" /\ Last(looked.log).result # NoTerm
            THEN Last(looked.log).result.definition ELSE None,
            IF caught THEN "" ELSE Last(looked.log).exc)

\* the exception of lookup_term leaves _fetch_definition
_fetch_definition_raising(c, term, scheme, kms) ==
    FetchedOf(_lookup_term_cached(c, term, scheme, kms), term, FALSE)

_fetch_definition(c, term, scheme, kms) ==
    FetchedOf(_lookup_term_cached(c, term, scheme, kms), term, TRUE)

Enriched(l, f) ==
    [line |-> IF f.definition # None /\ f.definition # ""
              THEN f.term \o ": " \o f.definition ELSE RenderLine(l),
     fetched |-> f]

\* _enrich_single_term on the stripped line l: the enriched line and what
\* was fetched for it
_enrich_single_term(c, l, scheme, kms) ==
    IF l.path = <<>> THEN Enriched(l, Fetched(c, "", None, ""))
    ELSE Enriched(l, _fetch_definition(c, _extract_term(l), scheme, kms))

EnrichedSoFar(e, one) ==
    [c |-> one.fetched.c,
     out |-> Append(e.out, one.line),
     fetched |-> Append(e.fetched, [term |-> one.fetched.term,
                                    definition |-> one.fetched.definition]),
     exc |-> one.fetched.exc]

\* _enrich_text from line i on; e is what the lines before i made
RECURSIVE _enrich_text(_, _, _, _, _)
_enrich_text(e, lines, scheme, modes, i) ==
    IF i > Len(lines) \/ e.exc # "" THEN e
    ELSE _enrich_text(EnrichedSoFar(e, _enrich_single_term(e.c, lines[i], scheme, modes[i])),
                      lines, scheme, modes, i + 1)

Generated(c, e, text, scheme, base_exc) ==
    [e.c EXCEPT
        !.generates = c.generates + 1,
        !.gen = [text |-> text, scheme |-> scheme, fetched |-> e.fetched,
                 base |-> IF e.exc = "" THEN << JoinLines(e.out) >> ELSE <<>>,
                 exc |-> IF e.exc # "" THEN e.exc ELSE base_exc]]

\* KMSEnrichedEmbeddingGenerator(base, scheme).generate(text): modes[i] is
\* what KMS answers for line i; base_exc is what the base generator raises
enriched_generate(c, text, scheme, modes, base_exc) ==
    Generated(c,
              _enrich_text([c |-> c, out |-> <<>>, fetched |-> <<>>, exc |-> ""],
                           StrippedLines(text), scheme, modes, 1),
              text, scheme, base_exc)

----------------------------------------------------------------------------
(* A datastore called directly (util/datastores/postgres.py) *)

MaxStoreCalls == 2   \* calls of datastore methods in one behaviour

\* the arguments of upsert_kms_embedding
StoreUuids == {"uuid-sst", "uuid-terra"}
StoreTerms == { <<"sciencekeywords", "sst">>, <<"sciencekeywords", "SST">>,
                <<"platforms", "TERRA">> }
StoreDefinitions == {None, "Sea surface temperature"}
StoreEmbeddings == {Embedding("sst"), Embedding("sst: Sea surface temperature")}

NoCall ==
    [op |-> "", kms_uuid |-> None, scheme |-> None, term |-> None, definition |-> None,
     embedding |-> <<>>, now |-> 0, ret |-> None, exc |-> ""]

NoStore == [now |-> 0, calls |-> 0, last |-> NoCall]

\* the world of a call at time now on the connection as it is
StoreWorld(now) ==
    [World(NoInput) EXCEPT !.status = get_db_connection(status), !.now = now]

----------------------------------------------------------------------------
(* Actions *)

Init ==
    /\ queue = <<>>
    /\ pc = "idle"
    /\ batch = <<>>
    /\ idx = 0
    /\ batch_item_failures = <<>>
    /\ raised = <<>>
    /\ lastExc = ""
    /\ db = EmptyTables
    /\ tx = EmptyTables
    /\ status = "none"
    /\ cache = <<>>
    /\ faults = 0
    /\ attempted = <<>>
    /\ lastIn = NoInput
    /\ replayed = FALSE
    /\ steps = <<>>
    /\ ingest = IngestIdle
    /\ bootstrap = BootstrapIdle
    /\ conc = ConcIdle
    /\ router = NoRouter
    /\ client = NoClient
    /\ store = NoStore

\* a producer (ingest handler, bootstrap driver) sends a message to the queue;
\* the handler does not look at the queue while it runs, so sends during an
\* invocation are taken after it
Send(bodies) ==
    /\ pc = "idle"
    /\ Len(queue) < MaxQueue
    /\ \E body \in bodies : queue' = Append(queue, body)
    /\ UNCHANGED <<pc, batch, idx, batch_item_failures, db, tx, status, cache, faults, hist>>
    /\ UNCHANGED <<producers, conc, router, client, store>>

\* the updates to the last two revisions of the collection, and the deletes
Enqueue ==
    Send({ b \in ValidBodies :
             IsUpdate(b) => (b.concept_id = "C1-P" /\ b.revision_id >= 2) })

\* the event source mapping invokes handler with the oldest messages of the
\* queue; handler runs up to the for loop (get_datastore, get_embedding_generator)
Invoke ==
    /\ pc = "idle"
    /\ \E k \in 1..MaxBatch :
          /\ k <= Len(queue)
          /\ batch' = SubSeq(queue, 1, k)
    /\ pc' = "loop"
    /\ idx' = 0
    /\ batch_item_failures' = <<>>
    /\ raised' = <<>>
    /\ lastExc' = ""
    /\ attempted' = <<>>
    /\ lastIn' = NoInput
    /\ replayed' = FALSE
    /\ steps' = <<>>
    /\ status' = get_db_connection(status)
    /\ UNCHANGED <<queue, db, tx, cache, faults>>
    /\ UNCHANGED <<producers, conc, router, client, store>>

\* the end of one iteration of the for loop of handler: process_message has
\* left the world w
Finish(in, w) ==
    /\ in.fault # NoFault => w.n >= in.fault.at    \* a fault is one that happens
    /\ db' = w.db
    /\ tx' = w.tx
    /\ status' = w.status
    /\ cache' = w.cache
    /\ lastExc' = w.exc
    /\ raised' = Append(raised, w.exc # "")
    /\ batch_item_failures' = ReportFailure(batch_item_failures, MessageId(NextRecord), w.exc)
    /\ idx' = idx + 1
    /\ faults' = IF in.fault = NoFault THEN faults ELSE faults + 1
    /\ attempted' = Append(attempted, MessageId(NextRecord))
    /\ lastIn' = in
    /\ steps' = w.trace
    /\ replayed' = /\ idx >= 1
                   /\ batch[NextRecord] = batch[idx]
                   /\ in = lastIn
                   /\ lastExc = ""
                   /\ w.exc = ""
    /\ UNCHANGED <<queue, pc, batch>>
    /\ UNCHANGED <<producers, conc, router, client, store>>

\* one iteration of the for loop of handler
Process(in) == Finish(in, process_message(World(in), batch[NextRecord]))

ProcessRecord ==
    /\ pc = "loop"
    /\ idx < Len(batch)
    /\ \E in \in Inputs(batch[NextRecord]) : Process(in)

\* handler returns batchItemFailures: the queue deletes the other records of
\* the batch and keeps the reported ones for redelivery
Return ==
    /\ pc = "loop"
    /\ idx = Len(batch)
    /\ LET failed == SelectSeq([i \in 1..Len(batch) |-> i],
                                LAMBDA i : MessageId(i) \in Range(batch_item_failures))
       IN  queue' = [j \in 1..Len(failed) |-> batch[failed[j]]]
                    \o SubSeq(queue, Len(batch) + 1, Len(queue))
    /\ pc' = "idle"
    /\ batch' = <<>>
    /\ idx' = 0
    /\ batch_item_failures' = <<>>
    /\ raised' = <<>>
    /\ lastExc' = ""
    /\ attempted' = <<>>
    /\ lastIn' = NoInput
    /\ replayed' = FALSE
    /\ steps' = <<>>
    /\ UNCHANGED <<db, tx, status, cache, faults>>
    /\ UNCHANGED <<producers, conc, router, client, store>>

Next == Enqueue \/ Invoke \/ ProcessRecord \/ Return

Spec == Init /\ [][Next]_vars

\* the queue also carries the variable's update and bodies that violate the
\* ConceptMessage schema; every service answers
EnqueueAny == Send(Bodies)

ProcessRecordNominal ==
    /\ pc = "loop"
    /\ idx < Len(batch)
    /\ \E in \in NominalInputs(batch[NextRecord]) : Process(in)

NextAny == EnqueueAny \/ Invoke \/ ProcessRecordNominal \/ Return

SpecAny == Init /\ [][NextAny]_vars

\* the KMS subflow: the updates of the collection whose keywords, platforms
\* and instruments KMS resolves, and its delete
KmsBodies ==
    { Body("concept-update", "collection", "C1-P", 1),
      Body("concept-update", "collection", "C1-P", 2),
      Body("concept-delete", "collection", "C1-P", 4) }

EnqueueKms == Send(KmsBodies)

\* schemes whose KMS term embedding call raises EmbeddingError
KmsEmbedFailures == { {}, {"platforms"}, {"sciencekeywords"} }

\* CMR and the datastore answer; KMS is up or one of its two endpoints is
\* down, or the embedding backend fails for the terms of one scheme
KmsInputs(body) ==
    IF IsUpdate(body)
    THEN { in \in { Input("ok", Catalog(body.concept_id, body.revision_id), e, k,
                           NoAssociations, NoFault) : e \in KmsEmbedFailures, k \in KmsModes } :
             in.embed_fail = {} \/ in.kms = "up" }
    ELSE NominalInputs(body)

ProcessRecordKms ==
    /\ pc = "loop"
    /\ idx < Len(batch)
    /\ \E in \in KmsInputs(batch[NextRecord]) : Process(in)

\* a new execution environment serves the next invocation: the module globals
\* (the lru_cache of _lookup_term_cached, _connection) start afresh and the
\* server has rolled back what the old connection left pending
ColdStart ==
    /\ pc = "idle"
    /\ cache # <<>>
    /\ cache' = <<>>
    /\ status' = "none"
    /\ tx' = db
    /\ UNCHANGED <<queue, pc, batch, idx, batch_item_failures, db, faults, hist>>
    /\ UNCHANGED <<producers, conc, router, client, store>>

NextKms == EnqueueKms \/ Invoke \/ ProcessRecordKms \/ Return \/ ColdStart

SpecKms == Init /\ [][NextKms]_vars

----------------------------------------------------------------------------
(* Properties *)

\* the rows of a table that belong to a concept
ChunkRowsOf(t, concept_id) ==
    [r \in { x \in DOMAIN t.concept_embeddings : x.concept_id = concept_id }
        |-> t.concept_embeddings[r]]

KmsUuidsOf(t, concept_id) ==
    { r.kms_uuid : r \in { x \in t.concept_kms_associations : x.concept_id = concept_id } }

AssociationRowsOf(t, concept_id) ==
    { r \in t.concept_associations :
        r.left_concept_id = concept_id \/ r.right_concept_id = concept_id }

HasRows(t, concept_id) ==
    \/ ChunkRowsOf(t, concept_id) # EmptyBag
    \/ KmsUuidsOf(t, concept_id) # {}
    \/ AssociationRowsOf(t, concept_id) # {}

\* the rows concept_embeddings should hold for a concept whose metadata is md
ExtractedChunkRows(concept_type, concept_id, md) ==
    LET chunks == embedded_chunks(extract_data(concept_type, md).chunks) IN
    SetToBag({ EmbeddingRow(concept_type, concept_id, chunks[i]) : i \in DOMAIN chunks })

\* the uuids of the references of md that lookup_term resolved
ResolvedUuids(concept_type, md) ==
    LET refs == Range(extract_data(concept_type, md).kms_terms) IN
    { cache[<<ref.term, ref.scheme>>].uuid :
        ref \in { x \in refs : <<x.term, x.scheme>> \in DOMAIN cache } } \ {None}

\* the loop has just finished a record of the batch without an exception
Succeeded == pc = "loop" /\ idx > 0 /\ lastExc = ""

SucceededUpdate == Succeeded /\ IsUpdate(batch[idx]) /\ ConceptMessage(batch[idx])

SucceededDelete ==
    Succeeded /\ batch[idx].json /\ batch[idx].action = "concept-delete"
              /\ ConceptMessage(batch[idx])

\* C1: after a message of a concept is processed, concept_embeddings holds for
\* that concept exactly the chunks extracted from the metadata of that update,
\* and no row at all after a delete
C1_ChunksOfLatestRevision ==
    /\ SucceededUpdate =>
          ChunkRowsOf(db, batch[idx].concept_id) =
             ExtractedChunkRows(batch[idx].concept_type, batch[idx].concept_id, lastIn.metadata)
    /\ SucceededDelete => ChunkRowsOf(db, batch[idx].concept_id) = EmptyBag

\* C2: after an update is processed, concept_kms_associations holds for the
\* concept exactly the uuids its references resolved to (none when no
\* reference resolved)
C2_KmsAssociationsOfLatestRevision ==
    SucceededUpdate =>
        KmsUuidsOf(db, batch[idx].concept_id) =
            ResolvedUuids(batch[idx].concept_type, lastIn.metadata)

\* C3: processing a message again, with the services answering as before,
\* leaves the committed rows as they were after the first time, duplicates
\* included (concept_embeddings is a bag)
C3_ReplayIsIdempotent == [][replayed' => db' = db]_vars

C3_Witness ==
    /\ replayed
    /\ IsUpdate(batch[idx])
    /\ BagSize(ChunkRowsOf(db, batch[idx].concept_id)) = 2
    /\ KmsUuidsOf(db, batch[idx].concept_id) # {}
    /\ db.kms_embeddings # {}
    /\ db.concept_associations # {}

\* C4: a processed delete leaves no row of the concept in concept_embeddings,
\* concept_associations (either side) and concept_kms_associations, and the
\* delete of a concept without rows changes no row
C4_DeleteRemovesTheConceptOnly ==
    /\ [](SucceededDelete => ~HasRows(db, batch[idx].concept_id))
    /\ [][(/\ pc = "loop" /\ idx' = idx + 1 /\ lastExc' = ""
           /\ batch[idx'].action = "concept-delete"
           /\ ~HasRows(db, batch[idx'].concept_id)) => db' = db]_vars

\* the messageIds of the records that raised, in batch order
RaisedIds ==
    SelectSeq([i \in 1..Len(raised) |-> MessageId(i)], LAMBDA i : raised[i])

\* C5: an exception of one record does not end the loop: every record of the
\* batch is attempted and batchItemFailures lists exactly the records that
\* raised, in batch order
C5_FailuresAreTheRaisedRecords ==
    /\ [](pc = "loop" => Len(raised) = idx /\ batch_item_failures = RaisedIds)
    /\ [][pc = "loop" /\ pc' = "idle" => idx = Len(batch)]_vars

C5_Witness ==
    /\ pc = "loop" /\ idx = 2 /\ Len(batch) = 2
    /\ raised = <<TRUE, FALSE>>
    /\ batch_item_failures = << MessageId(1) >>

\* C6: a message is not applied while an earlier message of its FIFO group is
\* still waiting to be processed successfully
C6_GroupOrder ==
    pc = "loop" =>
        \A i, j \in 1..idx :
            (i < j /\ MessageGroupId(batch[i]) = MessageGroupId(batch[j]) /\ raised[i])
                => raised[j]

\* C7: the records of a batch are processed one at a time in delivery order:
\* the rows, the connection and the cache change only in the step that
\* finishes the next record
C7_OneRecordAtATime ==
    /\ [](pc = "loop" => attempted = [i \in 1..idx |-> MessageId(i)])
    /\ [][(pc = "loop" /\ pc' = "loop" /\ <<db, tx, cache, attempted>>' # <<db, tx, cache, attempted>>)
            => (idx' = idx + 1 /\ idx' <= Len(batch)
                /\ attempted' = Append(attempted, MessageId(idx')))]_vars

C7_Witness ==
    /\ pc = "loop" /\ idx = 2
    /\ batch[1].concept_id = batch[2].concept_id
    /\ attempted = << MessageId(1), MessageId(2) >>
    /\ raised = <<FALSE, FALSE>>

\* C8: when the embedding of a chunk fails the message is reported failed and
\* no row is written, committed or pending
C8_EmbeddingFailureWritesNothing ==
    [][(idx' = idx + 1 /\ lastExc' = "ProcessingError: EmbeddingError")
         => /\ db' = db
            /\ tx' = tx
            /\ batch_item_failures' = Append(batch_item_failures, MessageId(idx'))]_vars

\* the second chunk failed after the first was embedded; the chunks stored
\* before are still there
C8_Witness ==
    /\ pc = "loop" /\ idx > 0
    /\ lastExc = "ProcessingError: EmbeddingError"
    /\ Len(extract_data(batch[idx].concept_type, lastIn.metadata).chunks) = 2
    /\ "abstract" \in lastIn.embed_fail
    /\ ChunkRowsOf(db, batch[idx].concept_id) # EmptyBag
    /\ MessageId(idx) \in Range(batch_item_failures)

\* C9: a record for which every service answers is processed successfully,
\* also after a datastore fault of an earlier record
C9_DatastoreFailureIsolated ==
    (pc = "loop" /\ idx > 0 /\ lastIn \in NominalInputs(batch[idx])) => lastExc = ""

\* C10: a record whose body violates the ConceptMessage schema is reported
\* in batchItemFailures
C10_InvalidMessageReported ==
    pc = "loop" => \A i \in 1..idx : ~ConceptMessage(batch[i]) => raised[i]

----------------------------------------------------------------------------
(* KMS subflow *)

KmsRowsOf(t, kms_uuid) == { r \in t.kms_embeddings : r.kms_uuid = kms_uuid }

\* the references of md whose lookup_term result is the uuid
RefsResolvedTo(concept_type, md, kms_uuid) ==
    { ref \in Range(extract_data(concept_type, md).kms_terms) :
        /\ <<ref.term, ref.scheme>> \in DOMAIN cache
        /\ cache[<<ref.term, ref.scheme>>].uuid = kms_uuid }

\* every reference of md has been looked up before
AllLookedUp(concept_type, md) ==
    \A ref \in Range(extract_data(concept_type, md).kms_terms) :
        <<ref.term, ref.scheme>> \in DOMAIN cache

\* C11: after an update is processed, every uuid lookup_term resolved for it
\* has exactly one row in kms_embeddings, and an update all of whose
\* references were resolved before leaves the number of rows as it was
C11_OneRowPerResolvedUuid ==
    /\ [](SucceededUpdate =>
            \A u \in ResolvedUuids(batch[idx].concept_type, lastIn.metadata) :
                Cardinality(KmsRowsOf(db, u)) = 1)
    /\ [][(/\ pc = "loop" /\ idx' = idx + 1 /\ lastExc' = ""
           /\ IsUpdate(batch[idx'])
           /\ AllLookedUp(batch[idx'].concept_type, lastIn'.metadata))
            => Cardinality(db'.kms_embeddings) = Cardinality(db.kms_embeddings)]_vars

\* C11 as amended: a resolved uuid has exactly one row unless the embedding
\* call for its term failed while it had none (then it has none); no uuid has
\* two rows, and a row that exists is neither removed nor changed
C11_OneRowUnlessEmbeddingFailed ==
    /\ [](SucceededUpdate =>
            \A u \in ResolvedUuids(batch[idx].concept_type, lastIn.metadata) :
                \/ Cardinality(KmsRowsOf(db, u)) = 1
                \/ /\ KmsRowsOf(db, u) = {}
                   /\ \E ref \in RefsResolvedTo(batch[idx].concept_type, lastIn.metadata, u) :
                         ref.scheme \in lastIn.embed_fail)
    /\ [](\A r1, r2 \in db.kms_embeddings : r1.kms_uuid = r2.kms_uuid => r1 = r2)
    /\ [][\A r \in db.kms_embeddings : r \in db'.kms_embeddings]_vars

\* the second update of the collection resolved uuid-sst again, after the
\* first stored its row; the rows of the other terms are there as well
C11_Witness ==
    /\ SucceededUpdate /\ idx = 2
    /\ batch[1] = batch[2]
    /\ raised = <<FALSE, FALSE>>
    /\ "uuid-sst" \in ResolvedUuids(batch[idx].concept_type, lastIn.metadata)
    /\ Cardinality(KmsRowsOf(db, "uuid-sst")) = 1
    /\ Cardinality(db.kms_embeddings) >= 2

\* C12: when the embedding call of a KMS term fails the update still
\* succeeds, every reference of the message is looked up, the uuids of the
\* other terms have their rows, and every resolved uuid, the failed term's
\* included, is linked to the concept
C12_KmsEmbeddingFailureSkipsTheTermOnly ==
    (pc = "loop" /\ idx > 0 /\ IsUpdate(batch[idx]) /\ lastIn.embed_fail # {}) =>
        /\ lastExc = ""
        /\ MessageId(idx) \notin Range(batch_item_failures)
        /\ AllLookedUp(batch[idx].concept_type, lastIn.metadata)
        /\ ResolvedUuids(batch[idx].concept_type, lastIn.metadata)
              \subseteq KmsUuidsOf(db, batch[idx].concept_id)
        /\ \A u \in ResolvedUuids(batch[idx].concept_type, lastIn.metadata) :
              (\E ref \in RefsResolvedTo(batch[idx].concept_type, lastIn.metadata, u) :
                  ref.scheme \notin lastIn.embed_fail)
                => Cardinality(KmsRowsOf(db, u)) = 1

\* the embedding of TERRA failed: no row for it, the row of MODIS after it is
\* stored and both uuids are linked to the collection
C12_Witness ==
    /\ pc = "loop" /\ idx > 0 /\ lastExc = ""
    /\ lastIn.embed_fail = {"platforms"}
    /\ KmsRowsOf(db, "uuid-terra") = {}
    /\ KmsRowsOf(db, "uuid-modis") # {}
    /\ KmsUuidsOf(db, batch[idx].concept_id) = {"uuid-terra", "uuid-modis"}

\* C13: a lookup_term call made while the pattern search or the concept
\* fetch of KMS fails returns None (the entries the record added to the
\* cache are None), and the update it belongs to is not failed by it
C13_LookupFailureReturnsNone ==
    /\ [][(pc = "loop" /\ idx' = idx + 1 /\ lastIn'.kms # "up")
            => \A key \in DOMAIN cache' \ DOMAIN cache : cache'[key] = NoTerm]_vars
    /\ []((pc = "loop" /\ idx > 0 /\ IsUpdate(batch[idx]) /\ lastIn.kms # "up")
            => lastExc = "")

\* C14: processing a concept-delete leaves every row of kms_embeddings as it
\* was, also when the deleted concept was the only one linked to a row
C14_DeleteKeepsKmsEmbeddings ==
    [][(pc = "loop" /\ idx' = idx + 1 /\ batch[idx'].action = "concept-delete")
         => db'.kms_embeddings = db.kms_embeddings]_vars

\* the collection was updated and then deleted: its links are gone, the row
\* of the term it alone was linked to is still there
C14_Witness ==
    /\ SucceededDelete /\ idx = 2
    /\ IsUpdate(batch[1]) /\ batch[1].concept_id = batch[2].concept_id
    /\ raised = <<FALSE, FALSE>>
    /\ db.concept_kms_associations = {}
    /\ KmsRowsOf(db, "uuid-sst") # {}

----------------------------------------------------------------------------
(* Ingest handler: actions *)

\* SNS invokes handler with event["Records"], one of sizes records; the
\* MessageId of a record is its place in the event
IngestStart(sizes) ==
    /\ ingest.pc \in {"idle", "done"}
    /\ \E n \in sizes : \E messages \in [1..n -> IngestMessages] :
          ingest' = [IngestIdle EXCEPT
                        !.pc = "loop",
                        !.records = [k \in 1..n |-> [MessageId |-> k, Message |-> messages[k]]]]
    /\ UNCHANGED <<queue, pc, batch, idx, batch_item_failures, db, tx, status, cache,
                   faults, hist, bootstrap, conc, router, client, store>>

IngestInvoke == IngestStart(0..MaxRecords)

\* one iteration of the for loop; send_message succeeds or raises
IngestRecord ==
    /\ ingest.pc = "loop"
    /\ ingest.i < Len(ingest.records)
    /\ \E send_ok \in BOOLEAN :
          ingest' = handler_iteration(ingest,
                        process_record(ingest.records[ingest.i + 1], ingest.i + 1, send_ok))
    /\ UNCHANGED <<queue, pc, batch, idx, batch_item_failures, db, tx, status, cache,
                   faults, hist, bootstrap, conc, router, client, store>>

\* handler returns its response
IngestReturn ==
    /\ ingest.pc = "loop"
    /\ ingest.i = Len(ingest.records)
    /\ ingest' = [ingest EXCEPT !.pc = "done"]
    /\ UNCHANGED <<queue, pc, batch, idx, batch_item_failures, db, tx, status, cache,
                   faults, hist, bootstrap, conc, router, client, store>>

NextIngest == IngestInvoke \/ IngestRecord \/ IngestReturn

SpecIngest == Init /\ [][NextIngest]_vars

\* malformed JSON, a missing required field or an invalid action
IngestMalformed(message) ==
    \/ ~message.json
    \/ Missing \in {message.action, message.concept_type, message.concept_id}
    \/ message.revision_id = MissingRevision
    \/ message.action \notin {"concept-update", "concept-delete"}

\* the send_message calls made for the k-th record
SendsOf(k) == { j \in DOMAIN ingest.sends : ingest.sends[j].of = k }

ErrorsOf(k) == { j \in DOMAIN ingest.errors : ingest.errors[j].message_id = k }

\* C16: every record is handled by itself: processed + failed is the number
\* of records done; a malformed record is not sent and is in errors under its
\* MessageId; a record whose send fails is in errors; every other record is
\* sent exactly once and is not in errors
C16_RecordsHandledIndependently ==
    ingest.pc \in {"loop", "done"} =>
        /\ IngestResponse(ingest).processed + IngestResponse(ingest).failed = ingest.i
        /\ ingest.pc = "done" => ingest.i = Len(ingest.records)
        /\ \A k \in 1..ingest.i :
              IF IngestMalformed(ingest.records[k].Message)
              THEN SendsOf(k) = {} /\ Cardinality(ErrorsOf(k)) = 1
              ELSE /\ Cardinality(SendsOf(k)) = 1
                   /\ \A j \in SendsOf(k) :
                         IF ingest.sends[j].accepted
                         THEN ErrorsOf(k) = {}
                         ELSE \E e \in ErrorsOf(k) : ingest.errors[e].error = "ClientError"
        /\ Len(ingest.results) =
              Cardinality({ j \in DOMAIN ingest.sends : ingest.sends[j].accepted })

\* a record that is not JSON is in errors and one record is sent and in
\* results; the other records of the event failed
C16_Witness ==
    /\ ingest.pc = "done"
    /\ Len(ingest.records) = MaxRecords
    /\ \E k \in 1..MaxRecords : ~ingest.records[k].Message.json /\ ErrorsOf(k) # {}
    /\ \E j \in DOMAIN ingest.sends : ingest.sends[j].accepted
    /\ IngestResponse(ingest).processed = 1
    /\ IngestResponse(ingest).failed = MaxRecords - 1

\* C17: a message the ingest handler sends to the queue satisfies the
\* ConceptMessage schema, and a record whose message violates it is in errors
C17_OnlySchemaValidMessagesEnqueued ==
    ingest.pc \in {"loop", "done"} =>
        /\ \A j \in DOMAIN ingest.sends : ConceptMessage(ingest.sends[j].params.MessageBody)
        /\ \A k \in 1..ingest.i :
              ~ConceptMessage(ingest.records[k].Message) => ErrorsOf(k) # {}

----------------------------------------------------------------------------
(* Embedding handler: the associations of collections *)

\* updates of two collections: the metadata of C1-P yields chunks and KMS
\* references, that of C2-P neither
AssociationBodies ==
    { Body("concept-update", "collection", "C1-P", 2),
      Body("concept-update", "collection", "C2-P", 3) }

EnqueueAssociations == Send(AssociationBodies)

\* what fetch_associations returns for a collection: variables and a
\* citation; a variable and a service; a service only; nothing
AssociationMaps ==
    { { <<"variables", <<"V1-P", "V2-P">>>>, <<"citations", <<"CIT1-P">>>> },
      { <<"variables", <<"V2-P">>>>, <<"services", <<"S1-P">>>> },
      { <<"services", <<"S1-P">>>> },
      NoAssociations }

ProcessRecordAssociations ==
    /\ pc = "loop"
    /\ idx < Len(batch)
    /\ \/ \E a \in AssociationMaps : \E f \in IF faults < MaxFaults THEN Faults ELSE {NoFault} :
             Process(Input("ok", Catalog(batch[NextRecord].concept_id,
                                         batch[NextRecord].revision_id), {}, "up", a, f))
       \/ \E r \in AssociationResponses \ {"ok"} :
             Process([Input("ok", Catalog(batch[NextRecord].concept_id,
                                          batch[NextRecord].revision_id), {}, "up",
                            NoAssociations, NoFault) EXCEPT !.assoc_response = r])

NextAssociations == EnqueueAssociations \/ Invoke \/ ProcessRecordAssociations \/ Return

SpecAssociations == Init /\ [][NextAssociations]_vars

(* Concurrent invocations: actions *)

ConcUnchanged ==
    UNCHANGED <<queue, pc, batch, idx, batch_item_failures, db, tx, status, cache,
                faults, hist, producers, router, client, store>>

\* an invocation starts on an update of C1-P: fetch_concept, extract_data and
\* the embedding of the chunks
ConcStart(s) ==
    /\ conc.s[s].pc \in {"idle", "done"}
    /\ conc.s[s].runs < MaxInvocations
    /\ \E md \in SessionMetadata :
          conc' = [conc EXCEPT !.s[s] =
                     [SessionIdle EXCEPT !.pc = "delete", !.md = md,
                                         !.runs = conc.s[s].runs + 1,
                                         !.terms = SessionUuids(md)]]
    /\ ConcUnchanged

\* upsert_chunks: the DELETE starts and finds the committed rows of the concept
ConcDeleteStart(s) ==
    /\ conc.s[s].pc = "delete"
    /\ conc' = [conc EXCEPT !.s[s].pc = "deleting",
                            !.s[s].snapshot = { r \in conc.rows : r.row.concept_id = "C1-P" }]
    /\ ConcUnchanged

\* the DELETE waits while another transaction holds one of the rows it found,
\* then deletes those that are still there
ConcDeleteEnd(s) ==
    /\ conc.s[s].pc = "deleting"
    /\ \A t \in Sessions \ {s} : conc.s[t].deleted \cap conc.s[s].snapshot = {}
    /\ conc' = [conc EXCEPT !.s[s].pc = "insert",
                            !.s[s].deleted = conc.s[s].snapshot \cap conc.rows]
    /\ ConcUnchanged

\* upsert_chunks: the INSERTs
ConcInsert(s) ==
    /\ conc.s[s].pc = "insert"
    /\ conc' = [conc EXCEPT !.s[s].pc = "commit",
                            !.s[s].inserted = SessionRows(s, conc.s[s].runs, conc.s[s].md)]
    /\ ConcUnchanged

\* upsert_chunks: conn.commit()
ConcCommitChunks(s) ==
    /\ conc.s[s].pc = "commit"
    /\ conc' = [conc EXCEPT !.rows = (conc.rows \ conc.s[s].deleted) \cup conc.s[s].inserted,
                            !.s[s].pc = "kms",
                            !.s[s].snapshot = {}, !.s[s].deleted = {}, !.s[s].inserted = {}]
    /\ ConcUnchanged

\* process_kms_terms: get_kms_embedding finds the committed row of the term,
\* and the term is done, or finds none
ConcGet(s) ==
    /\ conc.s[s].pc = "kms"
    /\ conc.s[s].terms # <<>>
    /\ conc' = [conc EXCEPT
                  !.s[s].kms_uuids = Append(conc.s[s].kms_uuids, Head(conc.s[s].terms)),
                  !.s[s].pc = IF Head(conc.s[s].terms) \in conc.kms THEN "kms" ELSE "embed",
                  !.s[s].terms = IF Head(conc.s[s].terms) \in conc.kms
                                 THEN Tail(conc.s[s].terms) ELSE conc.s[s].terms]
    /\ ConcUnchanged

\* process_kms_terms: embedder.generate for the term
ConcEmbed(s) ==
    /\ conc.s[s].pc = "embed"
    /\ conc' = [conc EXCEPT !.s[s].pc = "upsert",
                            !.embeds = BagAdd(conc.embeds, Head(conc.s[s].terms))]
    /\ ConcUnchanged

\* upsert_kms_embedding: INSERT ... ON CONFLICT (kms_uuid) DO UPDATE, which
\* waits while another transaction has inserted the uuid and not committed
ConcUpsert(s) ==
    /\ conc.s[s].pc = "upsert"
    /\ \A t \in Sessions \ {s} : Head(conc.s[s].terms) \notin conc.s[t].kms_pending
    /\ conc' = [conc EXCEPT !.s[s].pc = "commit_kms",
                            !.s[s].kms_pending = {Head(conc.s[s].terms)},
                            !.upserts = BagAdd(conc.upserts, Head(conc.s[s].terms))]
    /\ ConcUnchanged

\* upsert_kms_embedding: conn.commit()
ConcCommitKms(s) ==
    /\ conc.s[s].pc = "commit_kms"
    /\ conc' = [conc EXCEPT !.kms = conc.kms \cup conc.s[s].kms_pending,
                            !.s[s].kms_pending = {},
                            !.s[s].terms = Tail(conc.s[s].terms),
                            !.s[s].pc = "kms"]
    /\ ConcUnchanged

\* upsert_concept_kms_associations when uuids were collected, and the end of
\* the invocation (fetch_associations finds no association)
ConcLink(s) ==
    /\ conc.s[s].pc = "kms"
    /\ conc.s[s].terms = <<>>
    /\ conc' = [conc EXCEPT !.links = IF conc.s[s].kms_uuids # <<>>
                                      THEN Range(conc.s[s].kms_uuids) ELSE conc.links,
                            !.s[s].pc = "done"]
    /\ ConcUnchanged

NextConcurrent ==
    \E s \in Sessions :
        \/ ConcStart(s) \/ ConcDeleteStart(s) \/ ConcDeleteEnd(s) \/ ConcInsert(s)
        \/ ConcCommitChunks(s) \/ ConcGet(s) \/ ConcEmbed(s) \/ ConcUpsert(s)
        \/ ConcCommitKms(s) \/ ConcLink(s)

SpecConcurrent == Init /\ [][NextConcurrent]_vars

(* RoutingEmbeddingGenerator: actions *)

RouterUnchanged ==
    UNCHANGED <<queue, pc, batch, idx, batch_item_failures, db, tx, status, cache,
                faults, hist, producers, conc, client, store>>

\* a router is constructed
RouterNew ==
    /\ router.pc = "none"
    /\ \E generators \in RouterGenerators, default_generator \in DefaultGenerators :
          router' = RoutingEmbeddingGenerator(generators, default_generator)
    /\ RouterUnchanged

\* generate is called on the router
RouterGenerate ==
    /\ router.pc = "ok"
    /\ router.generates < MaxGenerate
    /\ \E concept_type \in GenerateConceptTypes, attribute \in GenerateAttributes :
          router' = generate(router, "text", concept_type, attribute)
    /\ RouterUnchanged

NextRouter == RouterNew \/ RouterGenerate

SpecRouter == Init /\ [][NextRouter]_vars

(* Redelivery: the services fail MaxFaults times at most, and the handler  *)
(* is invoked as long as the queue holds messages                          *)

\* the inputs of a record while the datastore may still fail
LiveInputs(body) ==
    NominalInputs(body)
    \cup { [in EXCEPT !.fault = f] :
             in \in NominalInputs(body), f \in IF faults < MaxFaults THEN Faults ELSE {} }

ProcessRecordLive ==
    /\ pc = "loop"
    /\ idx < Len(batch)
    /\ \E in \in LiveInputs(batch[NextRecord]) : Process(in)

NextLive == Enqueue \/ Invoke \/ ProcessRecordLive \/ Return \/ ColdStart

\* the queue invokes the handler while it holds messages, and an invocation
\* runs to its end: the for loop of handler does not stop before the last
\* record of the batch; nothing makes a new execution environment start
SpecLive ==
    /\ Init /\ [][NextLive]_vars
    /\ WF_vars(Invoke) /\ WF_vars(Return)
    /\ []<>~(pc = "loop" /\ idx < Len(batch))

(* KMS client: actions *)

ClientUnchanged ==
    UNCHANGED <<queue, pc, batch, idx, batch_item_failures, db, tx, status, cache,
                faults, hist, producers, conc, router, store>>

\* lookup_term(term, scheme) is called while KMS is in some mode
ClientLookup ==
    /\ Len(client.log) < MaxLookups
    /\ \E key \in ClientKeys, kms \in ClientKmsModes :
          client' = _lookup_term_cached(client, key[1], key[2], kms)
    /\ ClientUnchanged

ClientClear ==
    /\ Len(client.log) < MaxLookups
    /\ client.log # <<>>
    /\ client' = clear_cache(client)
    /\ ClientUnchanged

NextKmsClient == ClientLookup \/ ClientClear

SpecKmsClient == Init /\ [][NextKmsClient]_vars

(* KMSEnrichedEmbeddingGenerator: actions *)

\* generate is called on an enriched generator of some scheme
EnrichGenerate ==
    /\ client.generates < MaxEnrich
    /\ \E text \in EnrichTexts, scheme \in EnrichSchemes,
          base_exc \in {"", "EmbeddingError"} :
          \E modes \in [DOMAIN StrippedLines(text) -> ClientKmsModes] :
             client' = enriched_generate(client, text, scheme, modes, base_exc)
    /\ ClientUnchanged

NextEnrich == EnrichGenerate

SpecEnrich == Init /\ [][NextEnrich]_vars

(* Datastore called directly: actions *)

StoreUnchanged ==
    UNCHANGED <<queue, pc, batch, idx, batch_item_failures, cache,
                faults, hist, producers, conc, router, client>>

StoreReturn(w, call) ==
    /\ db' = w.db
    /\ tx' = w.tx
    /\ status' = w.status
    /\ store' = [now |-> call.now, calls |-> store.calls + 1,
                 last |-> [call EXCEPT !.ret = w.ret, !.exc = w.exc]]
    /\ StoreUnchanged

\* upsert_kms_embedding is called, later than every call before it
StoreUpsertKms ==
    /\ store.calls < MaxStoreCalls
    /\ \E kms_uuid \in StoreUuids, t \in StoreTerms, definition \in StoreDefinitions,
          embedding \in StoreEmbeddings :
          StoreReturn(upsert_kms_embedding(StoreWorld(store.now + 1), kms_uuid, t[1], t[2],
                                           definition, embedding),
                      [NoCall EXCEPT !.op = "upsert_kms_embedding", !.kms_uuid = kms_uuid,
                                     !.scheme = t[1], !.term = t[2],
                                     !.definition = definition, !.embedding = embedding,
                                     !.now = store.now + 1])

NextStore == StoreUpsertKms

SpecStore == Init /\ [][NextStore]_vars

(* Bootstrap driver: actions *)

BootUnchanged ==
    UNCHANGED <<queue, pc, batch, idx, batch_item_failures, db, tx, status, cache,
                faults, hist, ingest, conc, router, client, store>>

\* the concept_type of the event
EventConceptTypes == {"collection", "granule"}

\* handler is invoked: the event names a concept type, a search and dry_run;
\* EMBEDDING_QUEUE_URL is set or not
BootInvoke ==
    /\ bootstrap.pc = "idle"
    /\ \E concept_type \in EventConceptTypes, catalog \in SearchCatalogs,
          dry_run \in BOOLEAN, queue_url \in {None, "queue-url"} :
          bootstrap' =
            [BootstrapIdle EXCEPT
                !.concept_type = concept_type, !.cmr = catalog,
                !.dry_run = dry_run, !.queue_url = queue_url,
                !.pc = IF queue_url = None /\ ~dry_run THEN "raised" ELSE "page",
                !.exc = IF queue_url = None /\ ~dry_run
                        THEN [type |-> "ValueError", failed |-> {}] ELSE NoException]
    /\ BootUnchanged

\* search_cmr yields the next page
BootPage ==
    /\ bootstrap.pc = "page"
    /\ search_cmr(bootstrap).gen = "yielded"
    /\ bootstrap' = StartPage(search_cmr(bootstrap),
                              PageMessages(bootstrap.concept_type, search_cmr(bootstrap).items))
    /\ BootUnchanged

\* one call of send_message_batch and the rest of that iteration of the
\* retry loop, its sleep included
BootSend ==
    /\ bootstrap.pc = "send"
    /\ \/ bootstrap' = AfterResponse(Counted(bootstrap, {}), {})
       \/ /\ bootstrap.failures < MaxSendFailures
          /\ \E failed \in FailedChoices(bootstrap.pending_entries) :
                bootstrap' = AfterResponse(Counted(bootstrap, failed), failed)
       \/ /\ bootstrap.failures < MaxSendFailures
          /\ bootstrap' = CallRaises(bootstrap)
    /\ BootUnchanged

\* search_cmr is exhausted and handler returns its summary, or search_cmr
\* raises CMRError, which leaves handler
BootDone ==
    /\ bootstrap.pc = "page"
    /\ search_cmr(bootstrap).gen # "yielded"
    /\ bootstrap' =
          IF search_cmr(bootstrap).gen = "raised"
          THEN [search_cmr(bootstrap) EXCEPT !.pc = "raised",
                                             !.exc = [type |-> "CMRError", failed |-> {}]]
          ELSE [search_cmr(bootstrap) EXCEPT !.pc = "done"]
    /\ BootUnchanged

NextBootstrap == BootInvoke \/ BootPage \/ BootSend \/ BootDone

SpecBootstrap == Init /\ [][NextBootstrap]_vars

\* both producers, each invoked once; the ingest event carries one record
IngestInvokeOne == ingest.pc = "idle" /\ IngestStart({1})

NextProducers ==
    \/ IngestInvokeOne \/ IngestRecord \/ IngestReturn
    \/ BootInvoke \/ BootPage \/ BootSend \/ BootDone

SpecProducers == Init /\ [][NextProducers]_vars

\* what the producers have handed to the queue client: the parameters of the
\* send_message calls and the entries of the running and the last batch call
ProducedMessages ==
    { ingest.sends[j].params : j \in DOMAIN ingest.sends }
    \cup { [MessageBody |-> e.MessageBody, MessageGroupId |-> e.MessageGroupId,
            MessageDeduplicationId |-> e.MessageDeduplicationId] :
            e \in Range(bootstrap.pending_entries) \cup Range(bootstrap.last.Entries) }

\* C15: a message of either producer carries MessageGroupId
\* "{concept-type}:{concept-id}" and MessageDeduplicationId
\* "{concept-id}:{revision-id}" of its own body, so the ingest handler and the
\* bootstrap driver give the same attributes to the same body
C15_FifoAttributes ==
    /\ \A m \in ProducedMessages :
          /\ m.MessageGroupId = m.MessageBody.concept_type \o ":" \o m.MessageBody.concept_id
          /\ m.MessageDeduplicationId =
                m.MessageBody.concept_id \o ":" \o ToString(m.MessageBody.revision_id)
    /\ \A j \in DOMAIN ingest.sends : \A k \in DOMAIN bootstrap.last.Entries :
          ingest.sends[j].params.MessageBody = bootstrap.last.Entries[k].MessageBody
            => /\ ingest.sends[j].params.MessageGroupId
                    = bootstrap.last.Entries[k].MessageGroupId
               /\ ingest.sends[j].params.MessageDeduplicationId
                    = bootstrap.last.Entries[k].MessageDeduplicationId

\* revision 2 of the collection C1-P was sent by the ingest handler and by
\* the bootstrap driver
C15_Witness ==
    /\ \E j \in DOMAIN ingest.sends :
          /\ ingest.sends[j].params.MessageGroupId = "collection:C1-P"
          /\ ingest.sends[j].params.MessageDeduplicationId = "C1-P:2"
    /\ \E k \in DOMAIN bootstrap.last.Entries :
          /\ bootstrap.last.Entries[k].MessageBody = Body("concept-update", "collection", "C1-P", 2)
          /\ bootstrap.last.Entries[k].MessageGroupId = "collection:C1-P"
          /\ bootstrap.last.Entries[k].MessageDeduplicationId = "C1-P:2"

\* a call of send_message_batch has just returned or raised
BatchCall == bootstrap'.calls = bootstrap.calls + 1

\* C18: a retry sends exactly the entries the attempt before reported Failed,
\* no entry reported Successful is sent again, and sent grows by the number
\* of entries each response reports Successful
C18_RetryOnlyFailedEntries ==
    /\ []((bootstrap.pc = "send" /\ bootstrap.attempt > 0) =>
            /\ EntryIds(bootstrap.pending_entries) = bootstrap.last.Failed
            /\ bootstrap.pending_entries =
                  SelectSeq(bootstrap.last.Entries, LAMBDA e : e.Id \in bootstrap.last.Failed))
    /\ [](bootstrap.pc = "send" =>
            \A k \in DOMAIN bootstrap.pending_entries :
                bootstrap.pending_entries[k].MessageDeduplicationId
                    \notin Range(bootstrap.accepted))
    /\ [][BatchCall =>
            bootstrap'.sent = bootstrap.sent + Cardinality(bootstrap'.last.Successful)]_vars

\* the second attempt sends the one entry the first reported Failed; the
\* other entries of the batch are counted once
C18_Witness ==
    /\ bootstrap.pc = "send"
    /\ bootstrap.attempt = 1
    /\ Len(bootstrap.last.Entries) = SendBatchSize
    /\ Len(bootstrap.pending_entries) = 1
    /\ bootstrap.sent = SendBatchSize - 1

\* C19: a batch is sent at most 4 times, with sleeps of 1, 2 and 4 seconds
\* before the retries; a response without Failed entries ends the retries of
\* the batch; Failed entries in the 4th response raise RuntimeError naming
\* them, after which nothing more is sent
C19_BoundedRetriesWithBackoff ==
    /\ [](/\ bootstrap.attempt + 1 <= 4
          /\ bootstrap.pc = "send" =>
                bootstrap.sleeps = SubSeq(<<1, 2, 4>>, 1, bootstrap.attempt))
    /\ [][(BatchCall /\ bootstrap'.last.Failed = {} /\ bootstrap'.exc = NoException)
            => \/ bootstrap'.pc = "page"
               \/ /\ bootstrap'.pc = "send" /\ bootstrap'.attempt = 0
                  /\ bootstrap'.sleeps = <<>>
                  /\ bootstrap'.batches = bootstrap.batches + 1]_vars
    /\ [][(BatchCall /\ bootstrap'.last.Failed # {})
            => IF bootstrap'.last.attempt < 3
               THEN /\ bootstrap'.pc = "send"
                    /\ bootstrap'.batches = bootstrap.batches
                    /\ bootstrap'.attempt = bootstrap.attempt + 1
               ELSE /\ bootstrap'.pc = "raised"
                    /\ bootstrap'.exc = [type |-> "RuntimeError",
                                         failed |-> bootstrap'.last.Failed]
                    /\ bootstrap'.sleeps = <<1, 2, 4>>]_vars
    /\ [][bootstrap.pc = "raised" => bootstrap' = bootstrap]_vars

\* the first batch of a page failed four times: handler has raised and the
\* second batch of the page was never sent
C19_Witness ==
    /\ bootstrap.pc = "raised"
    /\ bootstrap.exc.type = "RuntimeError" /\ bootstrap.exc.failed # {}
    /\ bootstrap.calls = 4
    /\ bootstrap.batches = 1
    /\ Len(bootstrap.messages) > SendBatchSize

RECURSIVE SumSeq(_)
SumSeq(ns) == IF ns = <<>> THEN 0 ELSE Head(ns) + SumSeq(Tail(ns))

\* the items of a page that carry both identifiers
Identified(page) == { k \in DOMAIN page : HasIdentifiers(page[k]) }

\* the (concept-id, revision-id) pairs of the search result
IdentifiedPairs(search) ==
    UNION { { <<search[p][k].concept_id, search[p][k].revision_id>> : k \in Identified(search[p]) } :
            p \in DOMAIN search }

\* C20: no call carries more than 10 entries; without send failures
\* total_sent is the number of items with identifiers, a page of n messages
\* takes ceil(n / 10) calls (25 items in pages of 10, 10 and 5: 25 sent in 3
\* calls), every message is accepted once, and distinct (concept-id,
\* revision-id) pairs have distinct deduplication ids
C20_BatchesOfTenEachSentOnce ==
    /\ Len(bootstrap.pending_entries) <= 10
    /\ Len(bootstrap.last.Entries) <= 10
    /\ (bootstrap.pc = "done" /\ bootstrap.failures = 0 /\ ~bootstrap.dry_run) =>
          /\ bootstrap.total_sent =
                SumSeq([p \in DOMAIN bootstrap.search |->
                            Cardinality(Identified(bootstrap.search[p]))])
          /\ bootstrap.calls =
                SumSeq([p \in DOMAIN bootstrap.search |->
                            (Cardinality(Identified(bootstrap.search[p])) + 9) \div 10])
          /\ bootstrap.search = << Items(1, 10), Items(11, 20), Items(21, 25) >>
                => bootstrap.total_sent = 25 /\ bootstrap.calls = 3
          /\ Len(bootstrap.accepted) = bootstrap.total_sent
          /\ \A j, k \in DOMAIN bootstrap.accepted :
                j # k => bootstrap.accepted[j] # bootstrap.accepted[k]
          /\ Cardinality(Range(bootstrap.accepted))
                = Cardinality(IdentifiedPairs(bootstrap.search))

\* 25 items in pages of 10, 10 and 5, every call succeeded
C20_Witness ==
    /\ bootstrap.pc = "done" /\ bootstrap.failures = 0 /\ ~bootstrap.dry_run
    /\ Len(bootstrap.search) = 3
    /\ bootstrap.total_sent = 25
    /\ bootstrap.calls = 3
    /\ Cardinality(Range(bootstrap.accepted)) = 25

\* the items of the first n pages search_cmr has yielded
Yielded(n) == SumSeq([p \in 1..n |-> Len(bootstrap.search[p])])

\* C21: in a dry run the queue client is never called, with or without a
\* queue URL, no ValueError is raised for a missing URL, and total_sent is the
\* number of items from which a message was built
C21_DryRunNeverCallsTheQueue ==
    bootstrap.dry_run =>
        /\ bootstrap.calls = 0 /\ bootstrap.batches = 0
        /\ bootstrap.pending_entries = <<>> /\ bootstrap.last = NoResponse
        /\ bootstrap.accepted = <<>>
        /\ bootstrap.exc.type \notin {"ValueError", "RuntimeError", "ClientError"}
        /\ bootstrap.total_sent =
              SumSeq([p \in DOMAIN bootstrap.search |->
                          Cardinality(Identified(bootstrap.search[p]))])
        /\ bootstrap.total_sent = bootstrap.total_processed

\* a dry run without queue URL over 11 items, one of them without concept-id,
\* has returned total_sent = 10
C21_Witness ==
    /\ bootstrap.dry_run /\ bootstrap.queue_url = None
    /\ bootstrap.pc = "done"
    /\ Yielded(Len(bootstrap.search)) = 11
    /\ bootstrap.total_sent = 10

\* C22: every item without concept-id or revision-id is counted in
\* total_errors and gives no message, every other item is counted in
\* total_processed, so the two add up to the items the search returned; such
\* an item raises nothing out of handler, and the items and pages after it
\* are processed
C22_ItemsWithoutIdentifiersAreCounted ==
    /\ bootstrap.total_errors =
          SumSeq([p \in DOMAIN bootstrap.search |->
                      Len(bootstrap.search[p]) - Cardinality(Identified(bootstrap.search[p]))])
    /\ bootstrap.total_processed =
          SumSeq([p \in DOMAIN bootstrap.search |->
                      Cardinality(Identified(bootstrap.search[p]))])
    /\ bootstrap.total_processed + bootstrap.total_errors = Yielded(Len(bootstrap.search))
    /\ bootstrap.search # <<>> =>
          bootstrap.messages =
              [k \in 1..Len(bootstrap.messages) |->
                  Body("concept-update", bootstrap.concept_type,
                       SelectSeq(bootstrap.items, HasIdentifiers)[k].concept_id,
                       SelectSeq(bootstrap.items, HasIdentifiers)[k].revision_id)]
    /\ bootstrap.search # <<>> =>
          Len(bootstrap.messages) = Cardinality(Identified(bootstrap.items))
    /\ bootstrap.exc.type = "CMRError" => bootstrap.gen = "raised"
    /\ (bootstrap.pc = "done" /\ bootstrap.cmr.hits = Len(bootstrap.cmr.items)) =>
          bootstrap.total_processed + bootstrap.total_errors = Len(bootstrap.cmr.items)

\* the first item of the first page of two had no concept-id: the three
\* other items, one of the first page and two of the second, were sent
C22_Witness ==
    /\ bootstrap.pc = "done" /\ ~bootstrap.dry_run
    /\ Len(bootstrap.search) = 2
    /\ ~HasIdentifiers(bootstrap.search[1][1])
    /\ bootstrap.total_errors = 1
    /\ bootstrap.total_processed = 3
    /\ bootstrap.total_sent = 3

\* C23: search_cmr requests page_num 1, 2, 3, ... in order and yields each
\* non-empty page once; it requests a further page only after a non-empty
\* page that left the yielded items below hits, so it ends at the first empty
\* page or when the yielded items reach hits; for a catalog whose hits is its
\* number of items it ends having yielded exactly that many; an unknown
\* concept_type raises before any request
C23_SearchPagination ==
    /\ bootstrap.requests = [k \in 1..Len(bootstrap.requests) |-> k]
    /\ bootstrap.search = [k \in 1..Len(bootstrap.search) |-> ServePage(bootstrap.cmr, k)]
    /\ \A k \in DOMAIN bootstrap.search : bootstrap.search[k] # << >>
    /\ Len(bootstrap.search) <= Len(bootstrap.requests)
    /\ Len(bootstrap.requests) <= Len(bootstrap.search) + 1
    /\ Len(bootstrap.requests) <= Len(bootstrap.cmr.items) + 1
    /\ \A k \in DOMAIN bootstrap.requests :
          k > 1 => (k - 1) \in DOMAIN bootstrap.search /\ Yielded(k - 1) < bootstrap.cmr.hits
    /\ bootstrap.pc = "done" =>
          \/ /\ Len(bootstrap.requests) = Len(bootstrap.search) + 1
             /\ ServePage(bootstrap.cmr, Len(bootstrap.requests)) = << >>
          \/ /\ Len(bootstrap.requests) = Len(bootstrap.search)
             /\ Yielded(Len(bootstrap.search)) >= bootstrap.cmr.hits
    /\ (bootstrap.pc = "done" /\ bootstrap.cmr.hits = Len(bootstrap.cmr.items)) =>
          Yielded(Len(bootstrap.search)) = Len(bootstrap.cmr.items)
    /\ (bootstrap.pc # "idle" /\ bootstrap.concept_type \notin CONCEPT_ENDPOINTS) =>
          /\ bootstrap.requests = << >> /\ bootstrap.search = << >>
          /\ bootstrap.pc \in {"page", "raised"}
          /\ bootstrap.gen \in {"start", "raised"}
          /\ bootstrap.calls = 0

\* 25 items with hits = 25 were yielded in pages of 10, 10 and 5 by three
\* requests, and the handler has returned
C23_Witness ==
    /\ bootstrap.pc = "done"
    /\ bootstrap.cmr.hits = 25 /\ bootstrap.cmr.page_size = 10
    /\ bootstrap.requests = <<1, 2, 3>>
    /\ Len(bootstrap.search) = 3
    /\ Yielded(3) = 25

\* C24: upsert_chunks with chunks is all or nothing: an update that succeeds
\* leaves exactly its chunks committed for the concept; an update that raises
\* leaves the committed chunks of the concept as they were or, when it raised
\* after upsert_chunks returned, exactly its chunks; and no record changes the
\* committed chunks of another concept, so the statements of an upsert_chunks
\* that failed are never committed by a later operation
C24_UpsertChunksAtomic ==
    /\ []((SucceededUpdate
            /\ extract_data(batch[idx].concept_type, lastIn.metadata).chunks # <<>>) =>
            ChunkRowsOf(db, batch[idx].concept_id) =
               ExtractedChunkRows(batch[idx].concept_type, batch[idx].concept_id,
                                  lastIn.metadata))
    /\ [][(pc = "loop" /\ idx' = idx + 1 /\ lastExc' # "" /\ IsUpdate(batch[idx'])) =>
            \/ ChunkRowsOf(db', batch[idx'].concept_id) = ChunkRowsOf(db, batch[idx'].concept_id)
            \/ ChunkRowsOf(db', batch[idx'].concept_id) =
                  ExtractedChunkRows(batch[idx'].concept_type, batch[idx'].concept_id,
                                     lastIn'.metadata)]_vars
    /\ [][(pc = "loop" /\ idx' = idx + 1) =>
            \A c \in ConceptIds \ {batch[idx'].concept_id} :
                ChunkRowsOf(db', c) = ChunkRowsOf(db, c)]_vars

LeftRowsOf(t, concept_id) == { r \in t.concept_associations : r.left_concept_id = concept_id }

\* C26: an update of a collection with a non-empty association map leaves
\* for the collection exactly one variable row per id under "variables" and
\* one citation row per id under "citations", and nothing for other keys; the
\* rows of other collections are unchanged by the update; and an update that
\* raises changes no row of the collection (all or nothing)
C26_AssociationsFullReplace ==
    /\ []((SucceededUpdate /\ lastIn.associations # {}) =>
            LeftRowsOf(db, batch[idx].concept_id) =
                { AssociationRow(batch[idx].concept_type, batch[idx].concept_id, "variable", v) :
                    v \in Range(DictGet(lastIn.associations, "variables")) }
                \cup
                { AssociationRow(batch[idx].concept_type, batch[idx].concept_id, "citation", x) :
                    x \in Range(DictGet(lastIn.associations, "citations")) })
    /\ [][(pc = "loop" /\ idx' = idx + 1) =>
            \A r \in db.concept_associations \cup db'.concept_associations :
                r.left_concept_id # batch[idx'].concept_id =>
                    (r \in db.concept_associations /\ r \in db'.concept_associations)]_vars
    /\ [][(pc = "loop" /\ idx' = idx + 1 /\ lastExc' # "") =>
            LeftRowsOf(db', batch[idx'].concept_id) = LeftRowsOf(db, batch[idx'].concept_id)]_vars

\* C27: fetch_associations raises nothing: when its request fails or its
\* response cannot be read it returns the empty map, and the update of the
\* collection succeeds: its chunks and KMS links are committed and its
\* message is not reported failed
C27_FetchAssociationsNeverRaises ==
    [][(/\ pc = "loop" /\ idx' = idx + 1 /\ IsUpdate(batch[idx'])
        /\ status = "idle" /\ tx = db
        /\ lastIn'.assoc_response # "ok")
         => /\ lastExc' = ""
            /\ batch_item_failures' = batch_item_failures
            /\ ChunkRowsOf(db', batch[idx'].concept_id) =
                  ExtractedChunkRows(batch[idx'].concept_type, batch[idx'].concept_id,
                                     lastIn'.metadata)
            /\ KmsUuidsOf(db', batch[idx'].concept_id) # {}
                  \/ extract_data(batch[idx'].concept_type, lastIn'.metadata).kms_terms
                         = << >>]_vars

\* no invocation is inside upsert_chunks
NoUpsertChunksRunning ==
    \A s \in Sessions : conc.s[s].pc \notin {"delete", "deleting", "insert", "commit"}

\* C28: when invocations have run upsert_chunks for the same concept
\* concurrently, the committed chunks of the concept are exactly the chunk
\* set of one of them, never rows of both
C28_ConcurrentUpsertChunksOneWins ==
    (NoUpsertChunksRunning /\ \E s \in Sessions : conc.s[s].runs > 0) =>
        \E s \in Sessions :
            /\ conc.s[s].runs > 0
            /\ { r.row : r \in conc.rows } = { r.row : r \in SessionRows(s, 1, conc.s[s].md) }
            /\ Cardinality(conc.rows) = Cardinality(SessionRows(s, 1, conc.s[s].md))

\* C29: for every uuid stored in kms_embeddings the embedding generator was
\* called at most once and upsert_kms_embedding was performed at most once,
\* over all invocations
C29_KmsTermEmbeddedOnce ==
    \A u \in conc.kms : CopiesIn(u, conc.embeds) <= 1 /\ CopiesIn(u, conc.upserts) <= 1

\* C30: every generate call is delegated to one generator: the one under
\* "{concept_type}.{attribute}" if the dict has that key, else the one under
\* "{concept_type}" if it has that key, else the default (the default
\* generator given to the constructor, else the one under "default"); the
\* constructor raises exactly when there is neither
C30_RouterDelegatesToOneGenerator ==
    /\ Len(router.calls) = router.generates
    /\ \A k \in DOMAIN router.calls :
          /\ router.calls[k].text = "text"
          /\ router.calls[k].generator =
                IF (router.calls[k].concept_type \o "." \o router.calls[k].attribute)
                        \in DOMAIN router.generators
                THEN router.generators[router.calls[k].concept_type \o "."
                                           \o router.calls[k].attribute]
                ELSE IF router.calls[k].concept_type \in DOMAIN router.generators
                THEN router.generators[router.calls[k].concept_type]
                ELSE IF router.default_generator # None THEN router.default_generator
                ELSE router.generators["default"]
          /\ router.calls[k].generator # None
    /\ router.pc = "ValueError" <=>
          /\ router.pc # "none"
          /\ "default" \notin DOMAIN router.generators
          /\ router.default_generator = None
    /\ router.pc = "ValueError" => router.calls = << >>

\* a router with the keys "collection.title", "collection" and "default" has
\* delegated the title of a collection to the first and another attribute of
\* a collection to the second
C30_Witness ==
    /\ router.pc = "ok"
    /\ DOMAIN router.generators = {"collection.title", "collection", "default"}
    /\ \E k \in DOMAIN router.calls :
          /\ router.calls[k].concept_type = "collection"
          /\ router.calls[k].attribute = "title"
          /\ router.calls[k].generator = "title_gen"
    /\ \E k \in DOMAIN router.calls :
          /\ router.calls[k].concept_type = "collection"
          /\ router.calls[k].attribute = "science_keywords"
          /\ router.calls[k].generator = "collection_gen"

----------------------------------------------------------------------------
(* C31: the KMS-enriched generator *)

\* the base generator was called once, with one line per line of lines:
\* "{term}: {definition}" where a definition was fetched for the deepest
\* term of the line, and the line itself otherwise
BaseCalledWith(g, lines) ==
    /\ Len(g.base) = 1
    /\ Len(g.fetched) = Len(lines)
    /\ \A i \in DOMAIN lines :
          lines[i].path # <<>> => g.fetched[i].term = lines[i].path[Len(lines[i].path)]
    /\ g.base[1] = JoinLines([i \in DOMAIN lines |->
                                IF g.fetched[i].definition \notin {None, ""}
                                THEN g.fetched[i].term \o ": " \o g.fetched[i].definition
                                ELSE RenderLine(lines[i])])

\* C31 as stated: generate fails only when the base generator does; the base
\* generator is called exactly once with the lines of the input rejoined by
\* newlines, a line whose deepest term has a definition rewritten to
\* "{term}: {definition}" and every other line as it was in the input
C31_EnrichmentKeepsTheInputLines ==
    client.generates > 0 =>
        /\ client.gen.exc \in {"", "EmbeddingError"}
        /\ BaseCalledWith(client.gen, client.gen.text)

\* C31 amended: the same, for the lines of the input after surrounding
\* whitespace has been stripped from the text and from each of its lines
C31_EnrichmentNeverFailsOnKms ==
    client.generates > 0 =>
        /\ client.gen.exc \in {"", "EmbeddingError"}
        /\ BaseCalledWith(client.gen,
                          [i \in DOMAIN DropBlankLast(DropBlankHead(client.gen.text)) |->
                              Line("", DropBlankLast(DropBlankHead(client.gen.text))[i].path, "")])
              \/ (DropBlankLast(DropBlankHead(client.gen.text)) = <<>>
                  /\ client.gen.base = << "" >>)

\* a lookup raised for the second line after the first line was enriched,
\* and the base generator got both lines
C31_Witness ==
    /\ client.generates = 1
    /\ \E i \in DOMAIN client.log : client.log[i].exc = "AttributeError"
    /\ client.gen.base = << "PRECIPITATION: Water falling\nUNKNOWN_TERM" >>
    /\ client.gen.exc = ""

----------------------------------------------------------------------------
(* C32, C33: the KMS client *)

\* the results of a search whose preferred label is the term, whatever the case
ExactMatches(concepts, term) ==
    { i \in DOMAIN concepts : Upper(concepts[i].prefLabel) = Upper(term) }

\* C32: a lookup whose search request succeeded resolves the term to the
\* uuid of the first result whose preferred label equals the term
\* case-insensitively, to the uuid of the first result when no label
\* matches, and to nil when the search has no result
C32_LookupResolution ==
    \A n \in DOMAIN client.log :
        (/\ client.log[n].op = "lookup"
         /\ client.log[n].upstream > 0
         /\ client.log[n].kms \in {"up", "detail_down"})
        => LET term == client.log[n].key[1]
               concepts == KmsSearch(term, client.log[n].key[2])
               exact == ExactMatches(concepts, term)
           IN  /\ concepts = <<>> => client.log[n].result = NoTerm
               /\ exact # {} =>
                     \E i \in exact : /\ \A j \in exact : i <= j
                                      /\ client.log[n].result.uuid = concepts[i].uuid
               /\ (concepts # <<>> /\ exact = {}) =>
                     client.log[n].result.uuid = concepts[1].uuid

\* "sst" was resolved to the second result, the exact match, PRECIPITATION
\* to the first of two results that do not match, UNKNOWN_TERM to nil
C32_Witness ==
    /\ \E n \in DOMAIN client.log :
          /\ client.log[n].key = <<"sst", "sciencekeywords">>
          /\ client.log[n].result.uuid = "uuid-sst"
    /\ \E n \in DOMAIN client.log :
          /\ client.log[n].key = <<"PRECIPITATION", "sciencekeywords">>
          /\ client.log[n].result.uuid = "uuid-pamt"
    /\ \E n \in DOMAIN client.log :
          /\ client.log[n].key = <<"UNKNOWN_TERM", "sciencekeywords">>
          /\ client.log[n].kms = "up"
          /\ client.log[n].result = NoTerm

\* calls i < j are lookups of the same key, the first returned, and no
\* lookup of the key returned between them
ConsecutiveLookups(log, i, j) ==
    /\ i < j
    /\ log[i].op = "lookup" /\ log[i].exc = ""
    /\ log[j].op = "lookup" /\ log[j].key = log[i].key
    /\ \A n \in (i + 1)..(j - 1) :
          ~(log[n].op = "lookup" /\ log[n].key = log[i].key /\ log[n].exc = "")

ClearedBetween(log, i, j) == \E n \in (i + 1)..(j - 1) : log[n].op = "clear"

\* the keys whose lookup returned between calls i and j
KeysBetween(log, i, j) ==
    { log[n].key : n \in { m \in (i + 1)..(j - 1) : log[m].op = "lookup" /\ log[m].exc = "" } }

\* C33: after lookup_term(term, scheme) has returned, the next lookup of the
\* key returns the same result without a request to KMS, unless
\* clear_cache() was called or LruMaxsize other keys were looked up in
\* between; after clear_cache(), or after the entry was evicted, the next
\* lookup of the key asks KMS again
C33_CachedUntilClearedOrEvicted ==
    \A i, j \in DOMAIN client.log :
        ConsecutiveLookups(client.log, i, j) =>
            /\ (/\ ~ClearedBetween(client.log, i, j)
                /\ Cardinality(KeysBetween(client.log, i, j)) < LruMaxsize)
               => /\ client.log[j].upstream = 0
                  /\ client.log[j].exc = ""
                  /\ client.log[j].result = client.log[i].result
            /\ (\/ ClearedBetween(client.log, i, j)
                \/ Cardinality(KeysBetween(client.log, i, j)) >= LruMaxsize)
               => client.log[j].upstream > 0

\* "sst" was resolved, returned again from the cache while the search was
\* down, and, after clear_cache(), asked again and not found
C33_Witness ==
    /\ Len(client.log) = 4
    /\ client.log[1].key = <<"sst", "sciencekeywords">>
    /\ client.log[1].result.uuid = "uuid-sst"
    /\ client.log[2].key = client.log[1].key
    /\ client.log[2].kms = "search_down"
    /\ client.log[2].upstream = 0
    /\ client.log[2].result = client.log[1].result
    /\ client.log[3].op = "clear"
    /\ client.log[4].key = client.log[1].key
    /\ client.log[4].upstream = 1
    /\ client.log[4].result = NoTerm

----------------------------------------------------------------------------
(* C34: upsert_kms_embedding *)

\* the step is a call of upsert_kms_embedding that returned
UpsertKmsReturned ==
    /\ store'.calls = store.calls + 1
    /\ store'.last.op = "upsert_kms_embedding"
    /\ store'.last.exc = ""

\* C34: upsert_kms_embedding returns true exactly when no row of the uuid
\* existed before the call; the uuid then has exactly one row, which, when a
\* row existed, is that row with the definition, the embedding and
\* updated_at of the call and its scheme and term unchanged; the rows of
\* the other uuids are left as they were
C34_UpsertKmsEmbeddingKeyedByUuid ==
    [][UpsertKmsReturned =>
        /\ store'.last.ret = (KmsRowsOf(db, store'.last.kms_uuid) = {})
        /\ Cardinality(KmsRowsOf(db', store'.last.kms_uuid)) = 1
        /\ \A old \in KmsRowsOf(db, store'.last.kms_uuid) :
              KmsRowsOf(db', store'.last.kms_uuid) =
                 { [kms_uuid |-> old.kms_uuid, scheme |-> old.scheme, term |-> old.term,
                    definition |-> store'.last.definition,
                    embedding |-> store'.last.embedding,
                    updated_at |-> store'.last.now] }
        /\ KmsRowsOf(db, store'.last.kms_uuid) = {} =>
              KmsRowsOf(db', store'.last.kms_uuid) =
                 { [kms_uuid |-> store'.last.kms_uuid, scheme |-> store'.last.scheme,
                    term |-> store'.last.term, definition |-> store'.last.definition,
                    embedding |-> store'.last.embedding, updated_at |-> store'.last.now] }
        /\ db'.kms_embeddings \ KmsRowsOf(db', store'.last.kms_uuid)
              = db.kms_embeddings \ KmsRowsOf(db, store'.last.kms_uuid)
    ]_vars

\* a second call for a uuid, with another scheme, term, definition and
\* embedding, returned false and left one row with the scheme and term of
\* the first call
C34_Witness ==
    /\ store.calls = 2
    /\ store.last.ret = FALSE
    /\ store.last.scheme = "platforms"
    /\ store.last.definition = None
    /\ db.kms_embeddings =
          { [kms_uuid |-> "uuid-sst", scheme |-> "sciencekeywords", term |-> "sst",
             definition |-> None, embedding |-> store.last.embedding, updated_at |-> 2] }

----------------------------------------------------------------------------
(* C35: the order of the steps of an update *)

\* the place of a call in the order of section 4.7
StepRank(step) ==
    CASE step.call = "fetch_concept" -> 1
      [] step.call = "extract_data" -> 2
      [] step.call = "generate" /\ step.arg # "kms" -> 3
      [] step.call = "upsert_chunks" -> 4
      [] step.call \in {"lookup_term", "get_kms_embedding", "upsert_kms_embedding"} -> 5
      [] step.call = "generate" /\ step.arg = "kms" -> 5
      [] step.call = "upsert_concept_kms_associations" -> 6
      [] step.call = "fetch_associations" -> 7
      [] step.call = "upsert_associations" -> 8

StepsOf(call) == { i \in DOMAIN steps : steps[i].call = call }

\* C35: the calls made for an update come in the order fetch_concept,
\* extraction, embedding of the chunks, upsert_chunks, the KMS calls of the
\* terms, upsert_concept_kms_associations, fetch_associations,
\* upsert_associations: no call of a later step comes before a call of an
\* earlier one; upsert_chunks is called at most once, after every chunk was
\* embedded, with all the chunks; an update that succeeds has made exactly
\* one call of fetch_concept and of upsert_chunks, and only a collection
\* fetches associations
C35_UpdateStepsInOrder ==
    (pc = "loop" /\ idx > 0 /\ IsUpdate(batch[idx]) /\ ConceptMessage(batch[idx])) =>
        /\ \A i, j \in DOMAIN steps : i < j => StepRank(steps[i]) <= StepRank(steps[j])
        /\ Cardinality(StepsOf("upsert_chunks")) <= 1
        /\ \A i \in StepsOf("upsert_chunks") :
              /\ steps[i].arg = Len(extract_data(batch[idx].concept_type, lastIn.metadata).chunks)
              /\ Cardinality({ j \in 1..(i - 1) : steps[j].call = "generate" }) = steps[i].arg
        /\ lastExc = "" =>
              /\ Cardinality(StepsOf("fetch_concept")) = 1
              /\ Cardinality(StepsOf("extract_data")) = 1
              /\ Cardinality(StepsOf("upsert_chunks")) = 1
              /\ Cardinality(StepsOf("fetch_associations")) =
                    (IF batch[idx].concept_type = "collection" THEN 1 ELSE 0)
        /\ lastExc = "ProcessingError: CMRError" => Len(steps) = 1

\* a collection update that made every step: two chunks, a term that was
\* embedded and one that was found stored, the links, the associations
C35_Witness ==
    /\ SucceededUpdate
    /\ steps = << [call |-> "fetch_concept", arg |-> "C1-P"],
                  [call |-> "extract_data", arg |-> "collection"],
                  [call |-> "generate", arg |-> "collection"],
                  [call |-> "generate", arg |-> "collection"],
                  [call |-> "upsert_chunks", arg |-> 2],
                  [call |-> "lookup_term", arg |-> "sst"],
                  [call |-> "get_kms_embedding", arg |-> "uuid-sst"],
                  [call |-> "generate", arg |-> "kms"],
                  [call |-> "upsert_kms_embedding", arg |-> "uuid-sst"],
                  [call |-> "lookup_term", arg |-> "SST"],
                  [call |-> "get_kms_embedding", arg |-> "uuid-sst"],
                  [call |-> "upsert_concept_kms_associations", arg |-> 2],
                  [call |-> "fetch_associations", arg |-> "C1-P"],
                  [call |-> "upsert_associations", arg |-> "C1-P"] >>

----------------------------------------------------------------------------
(* C36: a term that is already embedded *)

\* the calls of upsert_kms_embedding for the uuid among the first n calls
UpsertedBefore(trace, n, kms_uuid) ==
    { j \in 1..(n - 1) : trace[j] = [call |-> "upsert_kms_embedding", arg |-> kms_uuid] }

\* C36: when get_kms_embedding finds a row for the uuid of a resolved term
\* (one stored by an earlier message, or earlier in this one), the next call
\* is neither the embedding generator nor upsert_kms_embedding; the row
\* stored by an earlier message is in kms_embeddings unchanged after the
\* message; the uuid is among those handed to
\* upsert_concept_kms_associations, and is linked to the concept when the
\* update succeeds
C36_ExistingKmsEmbeddingIsReused ==
    [][(pc = "loop" /\ idx' = idx + 1) =>
        \A i \in DOMAIN steps' :
            (/\ steps'[i].call = "get_kms_embedding"
             /\ \/ KmsRowsOf(tx, steps'[i].arg) # {}
                \/ UpsertedBefore(steps', i, steps'[i].arg) # {}
             /\ (i < Len(steps') \/ lastExc' = ""))
            => /\ i < Len(steps') =>
                     steps'[i + 1].call \notin {"generate", "upsert_kms_embedding"}
               /\ KmsRowsOf(db, steps'[i].arg) # {} =>
                     KmsRowsOf(db', steps'[i].arg) = KmsRowsOf(db, steps'[i].arg)
               /\ \A j \in DOMAIN steps' :
                     steps'[j].call = "upsert_concept_kms_associations" =>
                        steps'[j].arg = Cardinality({ k \in DOMAIN steps' :
                                                        steps'[k].call = "get_kms_embedding" })
               /\ lastExc' = "" =>
                     KmsAssociationRow(batch[idx'].concept_type, batch[idx'].concept_id,
                                       steps'[i].arg) \in db'.concept_kms_associations
    ]_vars

\* the update found the row of uuid-sst stored by an earlier message, went
\* on to the next term without embedding it, and linked the uuid
C36_Witness ==
    /\ SucceededUpdate
    /\ Len(steps) >= 8
    /\ steps[6] = [call |-> "lookup_term", arg |-> "sst"]
    /\ steps[7] = [call |-> "get_kms_embedding", arg |-> "uuid-sst"]
    /\ steps[8] = [call |-> "lookup_term", arg |-> "SST"]
    /\ KmsAssociationRow("collection", "C1-P", "uuid-sst") \in db.concept_kms_associations

----------------------------------------------------------------------------
(* C37: redelivery *)

\* C37: once the services answer, every message that waits in the queue,
\* newly sent or kept for redelivery, is eventually processed by an
\* invocation that does not report it in batchItemFailures
C37_EveryMessageEventuallySucceeds ==
    \A body \in ValidBodies :
        (pc = "idle" /\ body \in Range(queue)) ~> (Succeeded /\ batch[idx] = body)

----------------------------------------------------------------------------
(* C38: an empty association map *)

\* the record just processed is the update of a collection for which
\* fetch_associations returned the empty map
EmptyMapUpdate ==
    /\ pc = "loop" /\ idx' = idx + 1
    /\ IsUpdate(batch[idx']) /\ batch[idx'].concept_type = "collection"
    /\ fetch_associations(lastIn').exc = ""
    /\ fetch_associations(lastIn').associations = {}

\* C38: the update of a collection whose fetch_associations returns the
\* empty map leaves the stored rows of concept_associations with the
\* collection on the left exactly as they were; these rows change only when
\* an update of the collection fetches a non-empty map or a delete is processed
C38_EmptyAssociationMapWritesNothing ==
    /\ [][EmptyMapUpdate =>
            LeftRowsOf(db', batch[idx'].concept_id)
                = LeftRowsOf(db, batch[idx'].concept_id)]_vars
    /\ [][\A c \in ConceptIds :
            LeftRowsOf(db', c) # LeftRowsOf(db, c) =>
                /\ pc = "loop" /\ idx' = idx + 1
                /\ \/ /\ IsUpdate(batch[idx']) /\ batch[idx'].concept_id = c
                      /\ fetch_associations(lastIn').associations # {}
                   \/ batch[idx'].action = "concept-delete"]_vars

----------------------------------------------------------------------------
(* C39: the summary of the bootstrap driver *)

\* C39: when an invocation that is not a dry run returns its summary,
\* total_sent equals total_processed, and every message built was reported
\* Successful exactly once
C39_SummarySentEqualsProcessed ==
    (bootstrap.pc = "done" /\ ~bootstrap.dry_run) =>
        /\ bootstrap.total_sent = bootstrap.total_processed
        /\ Len(bootstrap.accepted) = bootstrap.total_processed
        /\ bootstrap.total_processed =
              SumSeq([p \in DOMAIN bootstrap.search |->
                          Len(PageMessages(bootstrap.concept_type, bootstrap.search[p]))])

\* the summary is returned after calls that reported Failed entries, over
\* pages of which one holds an item without identifiers
C39_Witness ==
    /\ bootstrap.pc = "done" /\ ~bootstrap.dry_run
    /\ bootstrap.failures >= 2
    /\ bootstrap.total_errors = 1
    /\ Len(bootstrap.search) = 2
    /\ bootstrap.total_processed = 3
    /\ bootstrap.total_sent = 3

----------------------------------------------------------------------------
(* C40: notifications of one revision of a concept *)

\* updates and deletes of two revisions of the collection and of the variable
FifoMessages ==
    { Body(action, c[1], c[2], rev) :
        action \in {"concept-update", "concept-delete"}, c \in Concepts, rev \in {2, 3} }

\* the ingest handler is invoked with two such notifications
IngestInvokeFifo ==
    /\ ingest.pc \in {"idle", "done"}
    /\ \E messages \in [1..2 -> FifoMessages] :
          ingest' = [IngestIdle EXCEPT
                        !.pc = "loop",
                        !.records = [k \in 1..2 |-> [MessageId |-> k, Message |-> messages[k]]]]
    /\ UNCHANGED <<queue, pc, batch, idx, batch_item_failures, db, tx, status, cache,
                   faults, hist, bootstrap, conc, router, client, store>>

NextFifo == IngestInvokeFifo \/ IngestRecord \/ IngestReturn

SpecFifo == Init /\ [][NextFifo]_vars

\* the FIFO queue, within its deduplication interval: of the send_message
\* calls it accepted, it keeps those whose MessageDeduplicationId no earlier
\* accepted call carried
FifoKept(sends) ==
    { k \in DOMAIN sends :
        /\ sends[k].accepted
        /\ \A j \in 1..(k - 1) :
              sends[j].accepted =>
                  sends[j].params.MessageDeduplicationId
                      # sends[k].params.MessageDeduplicationId }

\* C40: of the messages the ingest handler sends, two of the same concept-id
\* and revision-id carry the same MessageDeduplicationId, two of the same
\* concept-type and concept-id the same MessageGroupId, whatever their
\* actions; so of an update and a delete of one revision of a concept that
\* the queue both accepted, it keeps the first only
C40_DedupIdIgnoresTheAction ==
    \A j, k \in DOMAIN ingest.sends :
        /\ (/\ ingest.sends[j].params.MessageBody.concept_id
                  = ingest.sends[k].params.MessageBody.concept_id
            /\ ingest.sends[j].params.MessageBody.revision_id
                  = ingest.sends[k].params.MessageBody.revision_id)
             => /\ ingest.sends[j].params.MessageDeduplicationId
                      = ingest.sends[k].params.MessageDeduplicationId
                /\ (j < k /\ ingest.sends[j].accepted /\ ingest.sends[k].accepted)
                      => (j \in FifoKept(ingest.sends) /\ k \notin FifoKept(ingest.sends))
        /\ (/\ ingest.sends[j].params.MessageBody.concept_type
                  = ingest.sends[k].params.MessageBody.concept_type
            /\ ingest.sends[j].params.MessageBody.concept_id
                  = ingest.sends[k].params.MessageBody.concept_id)
             => ingest.sends[j].params.MessageGroupId
                   = ingest.sends[k].params.MessageGroupId

\* the update and the delete of revision 2 of C1-P were both accepted: same
\* group, same deduplication id, and the queue keeps the update only
C40_Witness ==
    /\ ingest.pc = "done"
    /\ Len(ingest.sends) = 2
    /\ ingest.sends[1].accepted /\ ingest.sends[2].accepted
    /\ ingest.sends[1].params.MessageBody = Body("concept-update", "collection", "C1-P", 2)
    /\ ingest.sends[2].params.MessageBody = Body("concept-delete", "collection", "C1-P", 2)
    /\ ingest.sends[1].params.MessageDeduplicationId = "C1-P:2"
    /\ ingest.sends[2].params.MessageDeduplicationId = "C1-P:2"
    /\ ingest.sends[1].params.MessageGroupId = "collection:C1-P"
    /\ ingest.sends[2].params.MessageGroupId = "collection:C1-P"
    /\ FifoKept(ingest.sends) = {1}

====
